---- MODULE Spec2Model ----
(***************************************************************************)
(* MediFriend (hms-tool): the relational store of database.py / models.py  *)
(* and the request handlers of routes/auth.py, routes/doctor.py and        *)
(* routes/patient.py that act on it.  Tables are sets of rows; a nullable  *)
(* column holds NULL ({}) or a one-element set.  Every handler is one      *)
(* action: the statements it runs, each committed by execute_query, and    *)
(* the flash it ends with.  The signup handlers are also given statement   *)
(* by statement, for the runs in which two requests interleave.            *)
(***************************************************************************)
EXTENDS Integers, Sequences, FiniteSets, TLC

VARIABLES
    users,          \* table users: rows [id, full_name, email, role]
    patient_details,\* table patient_details
    doctor_details, \* table doctor_details
    appointments,   \* table appointments: rows [id, patient_id, doctor_id, date, time, status]
    prescriptions,  \* table prescriptions
    uploads,        \* table uploads
    notifications,  \* table notifications
    seq,            \* AUTOINCREMENT: the largest id ever given, per table
    now,            \* the storage clock (CURRENT_TIMESTAMP), in days
    response,       \* what the last request answered: [category, message]
    audit,          \* history: the caller of the last request whose handler ran
                    \* on an existing appointment, and that row as it was before
    fault,          \* the write statement of the last request at which the
                    \* storage raised, 0 when it raised at none
    requests,       \* the signup requests in flight, each at its next statement
    opened          \* history: per user, the largest notification id given out
                    \* when the user's notification panel was last opened

vars ==
    <<users, patient_details, doctor_details, appointments, prescriptions,
      uploads, notifications, seq, now, response, audit, fault, requests, opened>>

people == <<users, patient_details, doctor_details>>

store == <<people, appointments, prescriptions, uploads, notifications, seq>>

(***************************************************************************)
(* Bounds of the model.                                                    *)
(***************************************************************************)
MaxAppointments == 2      \* appointment rows ever inserted
MaxNotifications == 3     \* notification rows ever inserted
MaxPrescriptions == 2     \* prescription rows ever inserted
MaxUploads == 1           \* upload rows ever inserted
RxMaxAppointments == 1    \* appointment rows ever inserted in SpecRx
ListMaxNotifications == 3     \* notification rows ever inserted in SpecList
NotifMaxAppointments == 2     \* appointment rows ever inserted in SpecNotif
NotifMaxNotifications == 2    \* notification rows ever inserted in SpecNotif

(***************************************************************************)
(* Column values.                                                          *)
(***************************************************************************)
NULL == {}

Some(x) == {x}

Val(c) == CHOOSE x \in c : TRUE

Roles == {"PATIENT", "DOCTOR"}

Statuses == {"PENDING", "CONFIRMED", "REJECTED", "COMPLETED"}

NotificationTypes ==
    {"APPOINTMENT_ACCEPTED", "APPOINTMENT_REJECTED", "PRESCRIPTION_WRITTEN",
     "APPOINTMENT_REQUESTED"}

Ids(table) == {r.id : r \in table}

Row(table, id) == CHOOSE r \in table : r.id = id

(***************************************************************************)
(* The session the excluded login layer injects: nothing for a caller who  *)
(* is not logged in, else the user's id and role (role is copied from the  *)
(* users row at login and no statement ever updates users.role).           *)
(***************************************************************************)
Anonymous == [logged_in |-> FALSE, user_id |-> NULL, role |-> NULL]

SessionOf(u) == [logged_in |-> TRUE, user_id |-> Some(u.id), role |-> Some(u.role)]

Sessions == {Anonymous} \cup {SessionOf(u) : u \in users}

Flash(category, message) == [category |-> category, message |-> message]

NoResponse == Flash("", "")

(***************************************************************************)
(* routes/auth.py role_required: which way the decorator sends a request.  *)
(***************************************************************************)
role_required(session, role) ==
    IF ~session.logged_in THEN "login"
    ELSE IF session.role # Some(role) THEN "home"
    ELSE "ok"

\* The answer of a request the decorator turned away; the store is untouched.
Denied(session, role) ==
    /\ role_required(session, role) # "ok"
    /\ response' = IF role_required(session, role) = "login"
                   THEN Flash("warning", "Please login to access this page.")
                   ELSE Flash("danger", "This page is only accessible to " \o role)
    /\ UNCHANGED <<store, now>>

(***************************************************************************)
(* database.py: the statements.  Each is committed on its own connection   *)
(* (execute_query, commit=True) with PRAGMA foreign_keys = ON.             *)
(***************************************************************************)
NextId(table) == seq[table] + 1

\* execute_query raises at the k-th write statement of the request (the
\* cursor's error, after the rollback of that one statement); the statements
\* the request ran before it were committed one by one and stay.
Raises(k) == fault' = k

Bump(s, table) == [s EXCEPT ![table] = @ + 1]

\* FOREIGN KEY ... REFERENCES t(id) on a nullable column
References(col, table) == col = NULL \/ Val(col) \in Ids(table)

NotificationRow(id, user_id, type, message, link, appointment_id, prescription_id) ==
    [id |-> id, user_id |-> user_id, type |-> type, message |-> message,
     link |-> link, is_read |-> 0, appointment_id |-> appointment_id,
     prescription_id |-> prescription_id, created_at |-> now]

\* create_notification raises sqlite3.IntegrityError when a foreign key
\* does not resolve in the tables as they are when it runs.
notification_fk_ok(user_id, appointment_id, prescription_id, appts, prescs) ==
    /\ user_id \in Ids(users)
    /\ References(appointment_id, appts)
    /\ References(prescription_id, prescs)

\* Mutant: the notification does not name the prescription it is about.
create_notification_without_prescription(ns, id, user_id, type, message, link, appointment_id, prescription_id) ==
    ns \cup {NotificationRow(id, user_id, type, message, link, appointment_id, NULL)}

create_notification(ns, id, user_id, type, message, link, appointment_id, prescription_id) ==
    ns \cup {NotificationRow(id, user_id, type, message, link,
                              appointment_id, prescription_id)}

\* Mutant: only a PENDING appointment takes a new status.
update_pending_appointment_status(appts, appointment_id, status) ==
    {IF a.id = appointment_id /\ a.status = "PENDING"
        THEN [a EXCEPT !.status = status] ELSE a : a \in appts}

\* UPDATE appointments SET status = ? WHERE id = ?
update_appointment_status(appts, appointment_id, status) ==
    {IF a.id = appointment_id THEN [a EXCEPT !.status = status] ELSE a : a \in appts}

\* Mutant: only a PENDING appointment is deleted.
cancel_appointment_pending_only(appts, appointment_id) ==
    {a \in appts : ~(a.id = appointment_id /\ a.status = "PENDING")}

\* DELETE FROM appointments WHERE id = ?
cancel_appointment(appts, appointment_id) ==
    {a \in appts : a.id # appointment_id}

\* Mutant: the notifications of a deleted appointment stay.
no_cascade_notifications(ns, appointment_id) == ns

\* notifications.appointment_id ... ON DELETE CASCADE
cascade_notifications(ns, appointment_id) ==
    {n \in ns : n.appointment_id # Some(appointment_id)}

\* Mutant: the prescriptions of a deleted appointment are deleted with it.
cascade_prescriptions(ps, appointment_id) ==
    {p \in ps : p.appointment_id # Some(appointment_id)}

\* prescriptions.appointment_id ... ON DELETE SET NULL
set_null_prescriptions(ps, appointment_id) ==
    {IF p.appointment_id = Some(appointment_id)
        THEN [p EXCEPT !.appointment_id = NULL] ELSE p : p \in ps}

UserRow(id, full_name, email, role) ==
    [id |-> id, full_name |-> full_name, email |-> email, role |-> role]

PatientDetailsRow(id, user_id, blood_group) ==
    [id |-> id, user_id |-> user_id, blood_group |-> blood_group]

DoctorDetailsRow(id, user_id, specialization, qualification, experience_years, consultation_fee) ==
    [id |-> id, user_id |-> user_id, specialization |-> specialization,
     qualification |-> qualification, experience_years |-> experience_years,
     consultation_fee |-> consultation_fee]

Message(text, date, time) == [text |-> text, date |-> date, time |-> time]

(***************************************************************************)
(* database.py create_appointment: INSERT the PENDING row, read the        *)
(* patient's name, and notify the doctor.  The INSERT raises when          *)
(* patient_id or doctor_id is no users.id (foreign keys).                  *)
(***************************************************************************)
appointment_fk_ok(patient_id, doctor_id) ==
    patient_id \in Ids(users) /\ doctor_id \in Ids(users)

AppointmentRow(id, patient_id, doctor_id, date, time, symptoms) ==
    [id |-> id, patient_id |-> patient_id, doctor_id |-> doctor_id, date |-> date,
     time |-> time, symptoms |-> symptoms, status |-> "PENDING"]

\* Mutant: the request notification goes to the patient who booked.
create_appointment_notifies_patient(patient_id, doctor_id, date, time, symptoms) ==
    LET appointment_id == NextId("appointments")
    IN  /\ appointments' = appointments \cup
               {AppointmentRow(appointment_id, patient_id, doctor_id, date, time, symptoms)}
        /\ notifications' =
               create_notification(notifications, NextId("notifications"),
                   patient_id, "APPOINTMENT_REQUESTED",
                   Message("has requested an appointment", Some(date), Some(time)),
                   Some("/doctor/appointments"), Some(appointment_id), NULL)
        /\ seq' = Bump(Bump(seq, "appointments"), "notifications")

create_appointment(patient_id, doctor_id, date, time, symptoms) ==
    LET appointment_id == NextId("appointments")
        patient == {u \in users : u.id = patient_id}
    IN  /\ appointments' = appointments \cup
               {AppointmentRow(appointment_id, patient_id, doctor_id, date, time, symptoms)}
        /\ IF appointment_id # 0 /\ patient # {} /\ ~Raises(2)
           THEN /\ notifications' =
                     create_notification(notifications, NextId("notifications"),
                         doctor_id, "APPOINTMENT_REQUESTED",
                         Message("has requested an appointment", Some(date), Some(time)),
                         Some("/doctor/appointments"), Some(appointment_id), NULL)
                /\ seq' = Bump(Bump(seq, "appointments"), "notifications")
           ELSE /\ notifications' = notifications
                /\ seq' = Bump(seq, "appointments")

(***************************************************************************)
(* routes/patient.py book_appointment (POST).  The form fields are NULL    *)
(* when missing or empty; doctor_id is text that int() may refuse.         *)
(***************************************************************************)
FormInt(n) == [blank |-> FALSE, int |-> Some(n)]

FormText == [blank |-> FALSE, int |-> NULL]     \* text int() raises ValueError on

FormBlank == [blank |-> TRUE, int |-> NULL]

book_appointment(session, doctor_id, date, time, symptoms) ==
    \/ Denied(session, "PATIENT")
    \/ /\ role_required(session, "PATIENT") = "ok"
       /\ UNCHANGED <<people, prescriptions, uploads, now>>
       /\ IF doctor_id.blank \/ date = NULL \/ time = NULL
          THEN /\ response' = Flash("danger", "Please fill in all required fields.")
               /\ UNCHANGED <<appointments, notifications, seq>>
          ELSE IF doctor_id.int = NULL
                  \/ ~appointment_fk_ok(Val(session.user_id), Val(doctor_id.int))
                  \/ Raises(1)
          THEN /\ response' = Flash("danger", "Error booking appointment")
               /\ UNCHANGED <<appointments, notifications, seq>>
          ELSE /\ create_appointment(Val(session.user_id), Val(doctor_id.int),
                                     Val(date), Val(time), symptoms)
               /\ response' = IF Raises(2)
                              THEN Flash("danger", "Error booking appointment")
                              ELSE Flash("success", "Appointment booked successfully!")

\* Mutant: an appointment that is not found is answered like one that is.
decide_appointment_unchecked(appointment_id, status, type, text, link, done, failed) ==
    /\ appointments' = update_appointment_status(appointments, appointment_id, status)
    /\ response' = done
    /\ UNCHANGED <<people, prescriptions, uploads, notifications, seq, now>>

(***************************************************************************)
(* routes/doctor.py accept_appointment / reject_appointment: SELECT the    *)
(* row, UPDATE the status, then build the message from the selected row    *)
(* (a TypeError when the SELECT found none) and notify the patient.        *)
(***************************************************************************)
decide_appointment(appointment_id, status, type, text, link, done, failed) ==
    LET found == {a \in appointments : a.id = appointment_id}
        updated == update_appointment_status(appointments, appointment_id, status)
    IN  /\ appointments' = IF Raises(1) THEN appointments ELSE updated
        /\ UNCHANGED <<people, prescriptions, uploads, now>>
        /\ IF found = {} \/ Raises(1)
           THEN /\ response' = failed
                /\ UNCHANGED <<notifications, seq>>
           ELSE LET appointment == CHOOSE a \in found : TRUE
                IN  IF ~notification_fk_ok(appointment.patient_id, Some(appointment_id),
                                           NULL, updated, prescriptions)
                       \/ Raises(2)
                    THEN /\ response' = failed
                         /\ UNCHANGED <<notifications, seq>>
                    ELSE /\ notifications' =
                              create_notification(notifications, NextId("notifications"),
                                  appointment.patient_id, type,
                                  Message(text, Some(appointment.date), Some(appointment.time)),
                                  link, Some(appointment_id), NULL)
                         /\ seq' = Bump(seq, "notifications")
                         /\ response' = done

\* Mutant: the acceptance is notified without a link.
accept_appointment_without_link(session, appointment_id) ==
    \/ Denied(session, "DOCTOR")
    \/ /\ role_required(session, "DOCTOR") = "ok"
       /\ decide_appointment(appointment_id, "CONFIRMED", "APPOINTMENT_ACCEPTED",
              "accepted your appointment", NULL,
              Flash("success", "Appointment confirmed successfully!"),
              Flash("danger", "Error confirming appointment"))

accept_appointment(session, appointment_id) ==
    \/ Denied(session, "DOCTOR")
    \/ /\ role_required(session, "DOCTOR") = "ok"
       /\ decide_appointment(appointment_id, "CONFIRMED", "APPOINTMENT_ACCEPTED",
              "accepted your appointment", Some("/patient/appointments"),
              Flash("success", "Appointment confirmed successfully!"),
              Flash("danger", "Error confirming appointment"))

\* Mutant: the rejection is notified with the link of an acceptance.
reject_appointment_with_link(session, appointment_id) ==
    \/ Denied(session, "DOCTOR")
    \/ /\ role_required(session, "DOCTOR") = "ok"
       /\ decide_appointment(appointment_id, "REJECTED", "APPOINTMENT_REJECTED",
              "declined your appointment request", Some("/patient/appointments"),
              Flash("info", "Appointment rejected."),
              Flash("danger", "Error rejecting appointment"))

reject_appointment(session, appointment_id) ==
    \/ Denied(session, "DOCTOR")
    \/ /\ role_required(session, "DOCTOR") = "ok"
       /\ decide_appointment(appointment_id, "REJECTED", "APPOINTMENT_REJECTED",
              "declined your appointment request", NULL,
              Flash("info", "Appointment rejected."),
              Flash("danger", "Error rejecting appointment"))

\* Mutant: the completion is notified to the patient.
complete_appointment_notified(session, appointment_id) ==
    \/ Denied(session, "DOCTOR")
    \/ /\ role_required(session, "DOCTOR") = "ok"
       /\ appointments' =
              update_appointment_status(appointments, appointment_id, "COMPLETED")
       /\ notifications' =
              notifications \cup
                  {NotificationRow(NextId("notifications"), a.patient_id,
                                   "APPOINTMENT_ACCEPTED", Message("completed", NULL, NULL),
                                   NULL, Some(a.id), NULL) :
                       a \in {a \in appointments : a.id = appointment_id}}
       /\ seq' = Bump(seq, "notifications")
       /\ response' = Flash("success", "Appointment marked as completed!")
       /\ UNCHANGED <<people, prescriptions, uploads, now>>

\* routes/doctor.py complete_appointment: the UPDATE alone.
complete_appointment(session, appointment_id) ==
    \/ Denied(session, "DOCTOR")
    \/ /\ role_required(session, "DOCTOR") = "ok"
       /\ appointments' =
              update_appointment_status(appointments, appointment_id, "COMPLETED")
       /\ response' = Flash("success", "Appointment marked as completed!")
       /\ UNCHANGED <<people, prescriptions, uploads, notifications, seq, now>>

\* routes/patient.py cancel_appointment_route: the DELETE and what the
\* schema's ON DELETE rules do with the rows that reference the appointment.
cancel_appointment_route(session, appointment_id) ==
    \/ Denied(session, "PATIENT")
    \/ /\ role_required(session, "PATIENT") = "ok"
       /\ appointments' = cancel_appointment(appointments, appointment_id)
       /\ notifications' = cascade_notifications(notifications, appointment_id)
       /\ prescriptions' = set_null_prescriptions(prescriptions, appointment_id)
       /\ response' = Flash("success", "Appointment cancelled successfully.")
       /\ UNCHANGED <<people, uploads, seq, now>>

(***************************************************************************)
(* Text.  A string is a tuple of characters; str.strip() removes the       *)
(* leading and the trailing whitespace.                                    *)
(***************************************************************************)
RECURSIVE lstrip(_)
lstrip(s) == IF s # <<>> /\ Head(s) = " " THEN lstrip(Tail(s)) ELSE s

RECURSIVE rstrip(_)
rstrip(s) ==
    IF s # <<>> /\ s[Len(s)] = " " THEN rstrip(SubSeq(s, 1, Len(s) - 1)) ELSE s

strip(s) == rstrip(lstrip(s))

Min(a, b) == IF a < b THEN a ELSE b

\* zip(names, dosages, durations), keeping the entries with no blank field
RECURSIVE collect_medicines(_, _, _)
collect_medicines(names, dosages, durations) ==
    IF Min(Len(names), Min(Len(dosages), Len(durations))) = 0 THEN <<>>
    ELSE LET name == strip(Head(names))
             dosage == strip(Head(dosages))
             duration == strip(Head(durations))
             rest == collect_medicines(Tail(names), Tail(dosages), Tail(durations))
         IN  IF name # <<>> /\ dosage # <<>> /\ duration # <<>>
             THEN <<[name |-> name, dosage |-> dosage, duration |-> duration]>> \o rest
             ELSE rest

\* json.dumps of the medicine list, as the characters it writes
RECURSIVE json_objects(_)
json_objects(medicines) ==
    IF medicines = <<>> THEN <<>>
    ELSE <<"{">> \o Head(medicines).name \o <<",">> \o Head(medicines).dosage
            \o <<",">> \o Head(medicines).duration \o <<"}">>
            \o json_objects(Tail(medicines))

json_dumps(medicines) == <<"[">> \o json_objects(medicines) \o <<"]">>

(***************************************************************************)
(* database.py create_prescription and routes/doctor.py write_prescription.*)
(* The INSERT raises when doctor_id, patient_id or appointment_id does not *)
(* resolve; the handler has no try around it, so the request ends in the   *)
(* framework's 500 answer.                                                 *)
(***************************************************************************)
prescription_fk_ok(doctor_id, patient_id, appointment_id) ==
    /\ doctor_id \in Ids(users)
    /\ patient_id \in Ids(users)
    /\ References(appointment_id, appointments)

PrescriptionRow(id, doctor_id, patient_id, appointment_id, diagnosis, medicines_json, notes) ==
    [id |-> id, doctor_id |-> doctor_id, patient_id |-> patient_id,
     appointment_id |-> appointment_id, diagnosis |-> diagnosis,
     medicines_json |-> medicines_json, notes |-> notes, created_at |-> now]

create_prescription(ps, id, doctor_id, patient_id, appointment_id, diagnosis, medicines_json, notes) ==
    ps \cup {PrescriptionRow(id, doctor_id, patient_id, appointment_id, diagnosis,
                              medicines_json, notes)}

\* Mutant: the diagnosis is tested as the form sent it, before strip().
diagnosis_missing_unstripped(diagnosis) == diagnosis = <<>>

diagnosis_missing(diagnosis) == strip(diagnosis) = <<>>

write_prescription_post(session, patient_id, appointment_id, form) ==
    LET doctor_id == Val(session.user_id)
        diagnosis == strip(form.diagnosis)
        notes == strip(form.notes)
        medicines == collect_medicines(form.names, form.dosages, form.durations)
        prescription_id == NextId("prescriptions")
        created == create_prescription(prescriptions, prescription_id, doctor_id,
                       patient_id, Some(appointment_id), diagnosis,
                       json_dumps(medicines), IF notes # <<>> THEN Some(notes) ELSE NULL)
    IN  /\ UNCHANGED <<people, appointments, uploads, now>>
        /\ IF diagnosis_missing(form.diagnosis)
           THEN /\ response' = Flash("error", "Diagnosis is required")
                /\ UNCHANGED <<prescriptions, notifications, seq>>
           ELSE IF ~prescription_fk_ok(doctor_id, patient_id, Some(appointment_id))
                   \/ Raises(1)
           THEN /\ response' = Flash("500", "Internal Server Error")
                /\ UNCHANGED <<prescriptions, notifications, seq>>
           ELSE /\ prescriptions' = created
                /\ IF prescription_id = 0
                   THEN /\ response' = Flash("error", "Failed to create prescription")
                        /\ notifications' = notifications
                        /\ seq' = Bump(seq, "prescriptions")
                   ELSE IF ~notification_fk_ok(patient_id, NULL, Some(prescription_id),
                                               appointments, created)
                           \/ Raises(2)
                   THEN /\ response' = Flash("500", "Internal Server Error")
                        /\ notifications' = notifications
                        /\ seq' = Bump(seq, "prescriptions")
                   ELSE /\ notifications' =
                             create_notification(notifications, NextId("notifications"),
                                 patient_id, "PRESCRIPTION_WRITTEN",
                                 Message("has written a prescription for you", NULL, NULL),
                                 Some("/patient/prescriptions"), NULL, Some(prescription_id))
                        /\ seq' = Bump(Bump(seq, "prescriptions"), "notifications")
                        /\ response' = Flash("success", "Prescription created successfully")

\* GET: the form, or 'Patient not found' when get_patient_details finds no user
write_prescription_get(patient_id) ==
    /\ response' = IF patient_id \in Ids(users)
                   THEN Flash("render", "write_prescription.html")
                   ELSE Flash("error", "Patient not found")
    /\ UNCHANGED <<store, now>>

write_prescription(session, method, patient_id, appointment_id, form) ==
    \/ Denied(session, "DOCTOR")
    \/ /\ role_required(session, "DOCTOR") = "ok"
       /\ IF method = "POST"
          THEN write_prescription_post(session, patient_id, appointment_id, form)
          ELSE write_prescription_get(patient_id)

(***************************************************************************)
(* app.py extract_prescription_from_image.  The service either raises or   *)
(* answers a text, here a tuple of tokens: a code fence, "{}" (a JSON      *)
(* object), "[]" (JSON that is no object), "x" (no JSON) and " ".          *)
(***************************************************************************)
Fence == "[fence]"

FenceJson == "[fence]json"

StartsWith(s, token) == s # <<>> /\ Head(s) = token

EndsWith(s, token) == s # <<>> /\ s[Len(s)] = token

unfence(text) ==
    LET a == strip(text)
        b == IF StartsWith(a, FenceJson) THEN Tail(a) ELSE a
        c == IF StartsWith(b, Fence) THEN Tail(b) ELSE b
        d == IF EndsWith(c, Fence) THEN SubSeq(c, 1, Len(c) - 1) ELSE c
    IN  strip(d)

\* Mutant: whatever the service answers is taken as the data.
extract_prescription_unparsed(service) ==
    IF service.raises
    THEN [data |-> NULL, explanation |-> "Error processing prescription"]
    ELSE [data |-> Some("{}"), explanation |-> "Prescription processed successfully."]

\* json.loads accepts one JSON value; .get then needs it to be an object
extract_prescription_from_image(service) ==
    IF service.raises
    THEN [data |-> NULL, explanation |-> "Error processing prescription"]
    ELSE IF unfence(service.text) \notin {<<"{}">>, <<"[]">>}
    THEN [data |-> NULL, explanation |-> "Error parsing AI response"]
    ELSE IF unfence(service.text) # <<"{}">>
    THEN [data |-> NULL, explanation |-> "Error processing prescription"]
    ELSE [data |-> Some("{}"), explanation |-> "Prescription processed successfully."]

UploadRow(id, patient_id, filename, extracted_data, explanation) ==
    [id |-> id, patient_id |-> patient_id, filename |-> filename,
     extracted_data |-> extracted_data, explanation |-> explanation,
     upload_type |-> "PRESCRIPTION", uploaded_at |-> now]

\* database.py create_uploaded_prescription
create_uploaded_prescription(ups, id, patient_id, filename, extracted_data, explanation) ==
    ups \cup {UploadRow(id, patient_id, filename, extracted_data, explanation)}

\* routes/patient.py upload_prescription_api; file is NULL when the request
\* carries none, else the name of the file (empty when none was selected).
upload_prescription_api(session, file, service) ==
    \/ Denied(session, "PATIENT")
    \/ /\ role_required(session, "PATIENT") = "ok"
       /\ UNCHANGED <<people, appointments, prescriptions, notifications, now>>
       /\ LET extracted == extract_prescription_from_image(service)
          IN  IF file = NULL
              THEN /\ response' = Flash("json 400", "No file uploaded")
                   /\ UNCHANGED <<uploads, seq>>
              ELSE IF Val(file) = ""
              THEN /\ response' = Flash("json 400", "No file selected")
                   /\ UNCHANGED <<uploads, seq>>
              ELSE IF extracted.data = NULL
              THEN /\ response' = Flash("json 500", extracted.explanation)
                   /\ UNCHANGED <<uploads, seq>>
              ELSE IF Val(session.user_id) \notin Ids(users)
              THEN /\ response' = Flash("json 500", "FOREIGN KEY constraint failed")
                   /\ UNCHANGED <<uploads, seq>>
              ELSE /\ uploads' =
                        create_uploaded_prescription(uploads, NextId("uploads"),
                            Val(session.user_id), Val(file), extracted.data,
                            extracted.explanation)
                   /\ seq' = Bump(seq, "uploads")
                   /\ response' = Flash("json", "Prescription uploaded successfully")

\* database.py delete_uploaded_prescription: DELETE FROM uploads WHERE id = ?
db_delete_uploaded_prescription(ups, upload_id) == {u \in ups : u.id # upload_id}

\* routes/patient.py delete_uploaded_prescription
delete_uploaded_prescription(session, upload_id) ==
    \/ Denied(session, "PATIENT")
    \/ /\ role_required(session, "PATIENT") = "ok"
       /\ uploads' = db_delete_uploaded_prescription(uploads, upload_id)
       /\ response' = Flash("success", "Prescription deleted successfully")
       /\ UNCHANGED <<people, appointments, prescriptions, notifications, seq, now>>

(***************************************************************************)
(* The registered users the runs start from (two patients, two doctors),   *)
(* and an empty clinic.                                                    *)
(***************************************************************************)
RegisteredUsers ==
    {UserRow(1, <<"p">>, <<"p", "1">>, "PATIENT"),
     UserRow(2, <<"p">>, <<"p", "2">>, "PATIENT"),
     UserRow(3, <<"d">>, <<"d", "1">>, "DOCTOR"),
     UserRow(4, <<"d">>, <<"d", "2">>, "DOCTOR")}

\* the details rows their signups wrote: nothing optional filled in
RegisteredPatientDetails ==
    {PatientDetailsRow(1, 1, Some(<<>>)), PatientDetailsRow(2, 2, Some(<<>>))}

RegisteredDoctorDetails ==
    {DoctorDetailsRow(1, 3, <<"s">>, Some(<<>>), 0, Some(0)),
     DoctorDetailsRow(2, 4, <<"s">>, Some(<<>>), 0, Some(0))}

Tables ==
    {"users", "patient_details", "doctor_details", "appointments",
     "prescriptions", "uploads", "notifications"}

\* the largest id of the rows of a table, 0 for an empty table
MaxId(table) ==
    IF table = {} THEN 0 ELSE CHOOSE n \in Ids(table) : \A m \in Ids(table) : m <= n

Init ==
    /\ users = RegisteredUsers
    /\ patient_details = RegisteredPatientDetails
    /\ doctor_details = RegisteredDoctorDetails
    /\ appointments = {}
    /\ prescriptions = {}
    /\ uploads = {}
    /\ notifications = {}
    /\ seq = [t \in Tables |->
                 CASE t = "users" -> MaxId(RegisteredUsers)
                   [] t = "patient_details" -> MaxId(RegisteredPatientDetails)
                   [] t = "doctor_details" -> MaxId(RegisteredDoctorDetails)
                   [] OTHER -> 0]
    /\ now = 0
    /\ response = NoResponse
    /\ audit = NULL
    /\ fault = 0
    /\ requests = {}
    /\ opened = {}

(***************************************************************************)
(* The requests a run draws from.                                          *)
(***************************************************************************)
\* an id no table ever gives out: larger than every id a run can reach
UnknownId ==
    Cardinality(RegisteredUsers) + MaxAppointments + MaxNotifications
        + MaxPrescriptions + MaxUploads + 1

Doctors == {u \in users : u.role = "DOCTOR"}

Patients == {u \in users : u.role = "PATIENT"}

UserIdInputs == Ids(users) \cup {UnknownId}

AppointmentIdInputs == (1 .. MaxAppointments) \cup {UnknownId}

UploadIdInputs == (1 .. MaxUploads) \cup {UnknownId}

\* doctor_id as the booking form sends it: every doctor, an id of no user,
\* text that is no number, and nothing
DoctorIdFields ==
    {FormInt(n) : n \in Ids(Doctors) \cup {UnknownId}} \cup {FormText, FormBlank}

DateFields == {NULL, Some(1)}

TimeFields == {NULL, Some("10:00")}

SymptomFields == {NULL}

PrescriptionForm(diagnosis, notes, names, dosages, durations) ==
    [diagnosis |-> diagnosis, notes |-> notes, names |-> names,
     dosages |-> dosages, durations |-> durations]

Texts == {<<>>, <<" ">>, <<"a">>, <<" ", "a", " ">>}

ServiceAnswers ==
    {[raises |-> TRUE, text |-> <<>>]} \cup
    {[raises |-> FALSE, text |-> t] :
        t \in {<<"{}">>, <<"[]">>, <<"x">>, <<FenceJson, "{}", Fence>>}}

FileFields == {NULL, Some(""), Some("rx.jpg")}

CanInsert(table, max) == seq[table] < max

\* The storage serves every statement of the request; the request opens no
\* notification panel and no signup is in flight.
Healthy == fault' = 0 /\ UNCHANGED <<requests, opened>>

\* The storage may raise at one of the first k write statements of the request.
Failing(k) == fault' \in 0 .. k /\ UNCHANGED <<requests, opened>>

\* The audit entry of a request for row id of a table, on a route open to role.
Touched(session, role, name, table, id) ==
    IF role_required(session, role) = "ok" /\ id \in Ids(table)
    THEN Some([table |-> name, by |-> Val(session.user_id), before |-> Row(table, id)])
    ELSE NULL

BookAppointment ==
    /\ Healthy
    /\ CanInsert("appointments", MaxAppointments)
    /\ CanInsert("notifications", MaxNotifications)
    /\ \E s \in Sessions, d \in DoctorIdFields, date \in DateFields,
          time \in TimeFields, symptoms \in SymptomFields :
           book_appointment(s, d, date, time, symptoms)
    /\ audit' = NULL

AcceptAppointment ==
    /\ Healthy
    /\ CanInsert("notifications", MaxNotifications)
    /\ \E s \in Sessions, a \in AppointmentIdInputs :
           accept_appointment(s, a)
           /\ audit' = Touched(s, "DOCTOR", "appointments", appointments, a)

RejectAppointment ==
    /\ Healthy
    /\ CanInsert("notifications", MaxNotifications)
    /\ \E s \in Sessions, a \in AppointmentIdInputs :
           reject_appointment(s, a)
           /\ audit' = Touched(s, "DOCTOR", "appointments", appointments, a)

CompleteAppointment ==
    /\ Healthy
    /\ \E s \in Sessions, a \in AppointmentIdInputs :
           /\ complete_appointment(s, a)
           /\ audit' = Touched(s, "DOCTOR", "appointments", appointments, a)

CancelAppointment ==
    /\ Healthy
    /\ \E s \in Sessions, a \in AppointmentIdInputs :
           /\ cancel_appointment_route(s, a)
           /\ audit' = Touched(s, "PATIENT", "appointments", appointments, a)

(***************************************************************************)
(* Spec: the appointment lifecycle, every caller against every appointment.*)
(***************************************************************************)
Next ==
    \/ BookAppointment
    \/ AcceptAppointment
    \/ RejectAppointment
    \/ CompleteAppointment
    \/ CancelAppointment

Spec == Init /\ [][Next]_vars

(***************************************************************************)
(* SpecOwner: bookings and uploads, and who deletes them.                  *)
(***************************************************************************)
\* The audit entry of an upload: the file and what the service answered.
Sent(session, file, service) ==
    IF role_required(session, "PATIENT") = "ok"
    THEN Some([table |-> "extraction", by |-> Val(session.user_id),
               file |-> file, service |-> service])
    ELSE NULL

UploadPrescription ==
    /\ Healthy
    /\ CanInsert("uploads", MaxUploads)
    /\ \E s \in Sessions, file \in FileFields, service \in ServiceAnswers :
           /\ upload_prescription_api(s, file, service)
           /\ audit' = Sent(s, file, service)

DeleteUploadedPrescription ==
    /\ Healthy
    /\ \E s \in Sessions, u \in UploadIdInputs :
           /\ delete_uploaded_prescription(s, u)
           /\ audit' = Touched(s, "PATIENT", "uploads", uploads, u)

NextOwner ==
    \/ BookAppointment
    \/ CancelAppointment
    \/ UploadPrescription
    \/ DeleteUploadedPrescription

SpecOwner == Init /\ [][NextOwner]_vars

(***************************************************************************)
(* SpecRx: prescriptions, written by any caller for any patient id and any *)
(* appointment id, and the cancellation of the appointments they refer to. *)
(***************************************************************************)
PickedPatient == CHOOSE u \in Patients : \A v \in Patients : u.id <= v.id

PickedDoctor == CHOOSE u \in Doctors : \A v \in Doctors : u.id <= v.id

RxDoctorIdFields == {FormInt(PickedDoctor.id), FormInt(UnknownId), FormBlank}

\* patient_id of the URL: a patient, a doctor, no user
RxPatientIdInputs == {PickedPatient.id, PickedDoctor.id, UnknownId}

RxAppointmentIdInputs == (1 .. RxMaxAppointments) \cup {UnknownId}

\* names and dosages as the form lists them (every duration is filled in):
\* no entry, a blank name, a valid entry, and a valid entry followed by a
\* name that has no dosage
MedicineFields ==
    {<<<<>>, <<>>>>,
     <<<<<<" ">>>>, <<<<"a">>>>>>,
     <<<<<<" ", "a">>>>, <<<<"a">>>>>>,
     <<<<<<"a">>, <<"b">>>>, <<<<"a", " ">>>>>>}

PrescriptionForms ==
    {PrescriptionForm(d, n, m[1], m[2], <<<<"a">>, <<"a">>>>) :
        d \in {<<>>, <<" ">>, <<" ", "a", " ">>}, n \in {<<>>}, m \in MedicineFields}

RxBookAppointment ==
    /\ Healthy
    /\ CanInsert("appointments", RxMaxAppointments)
    /\ CanInsert("notifications", MaxNotifications)
    /\ \E s \in Sessions, d \in RxDoctorIdFields, date \in DateFields,
          time \in TimeFields, symptoms \in SymptomFields :
           book_appointment(s, d, date, time, symptoms)
    /\ audit' = NULL

RxCancelAppointment ==
    /\ Healthy
    /\ \E s \in Sessions, a \in RxAppointmentIdInputs : cancel_appointment_route(s, a)
    /\ audit' = NULL

\* What a POST to write_prescription asked for, said without the handler's
\* own text processing: a text is blank when it holds nothing but spaces.
NonBlank(text) == \E i \in 1 .. Len(text) : text[i] # " "

ZippedEntries(form) ==
    {i \in 1 .. Len(form.names) : i <= Len(form.dosages) /\ i <= Len(form.durations)}

ValidEntries(form) ==
    {i \in ZippedEntries(form) :
        NonBlank(form.names[i]) /\ NonBlank(form.dosages[i]) /\ NonBlank(form.durations[i])}

\* The audit entry of a POST to write_prescription.
Posted(session, patient_id, appointment_id, form) ==
    IF role_required(session, "DOCTOR") = "ok"
    THEN Some([table |-> "prescriptions", by |-> Val(session.user_id),
               diagnosis_blank |-> ~NonBlank(form.diagnosis),
               entries |-> Cardinality(ZippedEntries(form)),
               valid_entries |-> Cardinality(ValidEntries(form)),
               resolves |-> patient_id \in Ids(users)
                              /\ appointment_id \in Ids(appointments)])
    ELSE NULL

WritePrescription ==
    /\ Healthy
    /\ CanInsert("prescriptions", MaxPrescriptions)
    /\ CanInsert("notifications", MaxNotifications)
    /\ \E s \in Sessions, p \in RxPatientIdInputs, a \in RxAppointmentIdInputs,
          form \in PrescriptionForms :
           /\ write_prescription(s, "POST", p, a, form)
           /\ audit' = Posted(s, p, a, form)

ShowPrescriptionForm ==
    /\ Healthy
    /\ \E s \in Sessions, p \in RxPatientIdInputs, a \in RxAppointmentIdInputs,
          form \in {PrescriptionForm(<<>>, <<>>, <<>>, <<>>, <<>>)} :
           write_prescription(s, "GET", p, a, form)
    /\ audit' = NULL

NextRx ==
    \/ RxBookAppointment
    \/ RxCancelAppointment
    \/ WritePrescription
    \/ ShowPrescriptionForm

SpecRx == Init /\ [][NextRx]_vars

(***************************************************************************)
(* database.py: the notification queries.  The clock counts days;          *)
(* datetime(created_at) < datetime('now', '-7 days') holds of a row made   *)
(* more than 7 days ago.                                                   *)
(***************************************************************************)
ReadRetentionDays == 7

RetentionDays == 30

Limit == 50

Json(message, body) == [category |-> "json", message |-> message, body |-> body]

\* Mutant: the sweep of a fetch deletes the old unread rows as well.
cleanup_notifications_read_or_not(ns, user_id) ==
    {n \in ns : ~(n.user_id = user_id /\ n.created_at < now - ReadRetentionDays)}

\* get_user_notifications, its DELETE: the user's read rows older than 7 days
cleanup_read_notifications(ns, user_id) ==
    {n \in ns : ~(/\ n.user_id = user_id
                  /\ n.is_read = 1
                  /\ n.created_at < now - ReadRetentionDays)}

\* ORDER BY created_at DESC, the later row first among rows of one instant
Newer(a, b) ==
    a.created_at > b.created_at \/ (a.created_at = b.created_at /\ a.id > b.id)

\* ... LIMIT 50
newest(rows) == {r \in rows : Cardinality({q \in rows : Newer(q, r)}) < Limit}

\* get_user_notifications, its SELECT
get_user_notifications(ns, user_id, unread_only) ==
    newest({n \in ns : n.user_id = user_id /\ (unread_only => n.is_read = 0)})

get_unread_notification_count(ns, user_id) ==
    Cardinality({n \in ns : n.user_id = user_id /\ n.is_read = 0})

\* UPDATE notifications SET is_read = 1 WHERE user_id = ? AND is_read = 0
mark_notifications_as_read(ns, user_id) ==
    {IF n.user_id = user_id /\ n.is_read = 0 THEN [n EXCEPT !.is_read = 1] ELSE n :
        n \in ns}

\* Mutant: only the read rows older than 7 days are deleted, as in a fetch.
delete_read_notifications_older(ns, user_id) ==
    {n \in ns : ~(/\ n.user_id = user_id
                  /\ n.is_read = 1
                  /\ n.created_at < now - ReadRetentionDays)}

\* Mutant: the purge deletes nothing.
keep_read_notifications(ns, user_id) == ns

\* Mutant: the purge deletes every row of the user, read or not.
delete_user_notifications(ns, user_id) == {n \in ns : n.user_id # user_id}

\* DELETE FROM notifications WHERE user_id = ? AND is_read = 1
delete_read_notifications(ns, user_id) ==
    {n \in ns : ~(n.user_id = user_id /\ n.is_read = 1)}

\* DELETE FROM notifications WHERE created_at is more than 30 days ago
cleanup_old_notifications(ns) ==
    {n \in ns : ~(n.created_at < now - RetentionDays)}

(***************************************************************************)
(* The notification routes, the same three in routes/patient.py (role      *)
(* PATIENT) and routes/doctor.py (role DOCTOR), and the sweep app.py runs  *)
(* when the process starts.  The routes have no try around the statements: *)
(* an error of the storage ends the request in the framework's 500 answer. *)
(***************************************************************************)
get_notifications(session, role) ==
    \/ Denied(session, role)
    \/ /\ role_required(session, role) = "ok"
       /\ UNCHANGED <<people, appointments, prescriptions, uploads, seq, now>>
       /\ LET user_id == Val(session.user_id)
              swept == cleanup_read_notifications(notifications, user_id)
          IN  IF Raises(1)
              THEN /\ response' = Flash("500", "Internal Server Error")
                   /\ notifications' = notifications
              ELSE /\ notifications' = swept
                   /\ response' =
                          Json("notifications", get_user_notifications(swept, user_id, TRUE))

get_notification_count(session, role) ==
    \/ Denied(session, role)
    \/ /\ role_required(session, role) = "ok"
       /\ response' =
              Json("count", get_unread_notification_count(notifications, Val(session.user_id)))
       /\ UNCHANGED <<store, now>>

mark_notifications_read(session, role) ==
    \/ Denied(session, role)
    \/ /\ role_required(session, role) = "ok"
       /\ UNCHANGED <<people, appointments, prescriptions, uploads, seq, now>>
       /\ LET user_id == Val(session.user_id)
              marked == mark_notifications_as_read(notifications, user_id)
          IN  IF Raises(1)
              THEN /\ response' = Flash("500", "Internal Server Error")
                   /\ notifications' = notifications
              ELSE IF Raises(2)
              THEN /\ response' = Flash("500", "Internal Server Error")
                   /\ notifications' = marked
              ELSE /\ notifications' = delete_read_notifications(marked, user_id)
                   /\ response' = Json("success", TRUE)

\* app.py, at import: init_db finds the database file and returns; the sweep
\* runs inside try / except: pass.
startup ==
    /\ notifications' = IF Raises(1) THEN notifications
                        ELSE cleanup_old_notifications(notifications)
    /\ response' = NoResponse
    /\ UNCHANGED <<people, appointments, prescriptions, uploads, seq, now>>

(***************************************************************************)
(* SpecNotif: a patient books with a doctor who accepts, which notify the  *)
(* doctor and the patient; every caller fetches, counts and opens the      *)
(* panel on both blueprints, and the storage may raise in any request.     *)
(***************************************************************************)
\* the callers of the notification routes: nobody, a patient, a doctor
NotifSessions == {Anonymous, SessionOf(PickedPatient), SessionOf(PickedDoctor)}

\* The audit entry of a request on a notification route: the caller and the
\* caller's notifications as they were before.
Viewed(session, role) ==
    IF role_required(session, role) = "ok"
    THEN Some([table |-> "notifications", by |-> Val(session.user_id),
               before |-> {n \in notifications : n.user_id = Val(session.user_id)}])
    ELSE NULL

NotifBookAppointment ==
    /\ Failing(2)
    /\ CanInsert("appointments", NotifMaxAppointments)
    /\ CanInsert("notifications", NotifMaxNotifications)
    /\ book_appointment(SessionOf(PickedPatient), FormInt(PickedDoctor.id),
                        Some(1), Some("10:00"), NULL)
    /\ audit' = NULL

NotifAcceptAppointment ==
    /\ Failing(2)
    /\ CanInsert("notifications", NotifMaxNotifications)
    /\ \E a \in 1 .. NotifMaxAppointments : accept_appointment(SessionOf(PickedDoctor), a)
    /\ audit' = NULL

GetNotifications ==
    /\ Failing(1)
    /\ \E s \in NotifSessions, role \in Roles :
           get_notifications(s, role) /\ audit' = Viewed(s, role)

GetNotificationCount ==
    /\ Healthy
    /\ \E s \in NotifSessions, role \in Roles :
           get_notification_count(s, role) /\ audit' = Viewed(s, role)

\* The panel is opened: the history keeps the last id given out before.
MarkNotificationsRead ==
    /\ fault' \in 0 .. 2
    /\ UNCHANGED requests
    /\ \E s \in NotifSessions, role \in Roles :
           /\ mark_notifications_read(s, role)
           /\ audit' = Viewed(s, role)
           /\ opened' =
                  IF response' = Json("success", TRUE)
                  THEN {o \in opened : o.user_id # Val(s.user_id)} \cup
                       {[user_id |-> Val(s.user_id), upto |-> seq["notifications"]]}
                  ELSE opened

NextNotif ==
    \/ NotifBookAppointment
    \/ NotifAcceptAppointment
    \/ GetNotifications
    \/ GetNotificationCount
    \/ MarkNotificationsRead

SpecNotif == Init /\ [][NextNotif]_vars

(***************************************************************************)
(* SpecSweep: the same requests while days pass and the process restarts;  *)
(* the storage may raise when the panel is opened, which leaves read rows. *)
(***************************************************************************)
\* the instants of a run: the start and the days around the two retentions
Days ==
    {0, ReadRetentionDays, ReadRetentionDays + 1, RetentionDays, RetentionDays + 1}

SweepBookAppointment ==
    /\ Healthy
    /\ CanInsert("appointments", NotifMaxAppointments)
    /\ CanInsert("notifications", NotifMaxNotifications)
    /\ book_appointment(SessionOf(PickedPatient), FormInt(PickedDoctor.id),
                        Some(1), Some("10:00"), NULL)
    /\ audit' = NULL

SweepAcceptAppointment ==
    /\ Healthy
    /\ CanInsert("notifications", NotifMaxNotifications)
    /\ \E a \in 1 .. NotifMaxAppointments : accept_appointment(SessionOf(PickedDoctor), a)
    /\ audit' = NULL

SweepGetNotifications ==
    /\ Healthy
    /\ \E s \in NotifSessions, role \in Roles :
           get_notifications(s, role) /\ audit' = Viewed(s, role)

SweepMarkNotificationsRead ==
    /\ Failing(2)
    /\ \E s \in NotifSessions, role \in Roles :
           mark_notifications_read(s, role) /\ audit' = Viewed(s, role)

Startup ==
    /\ Healthy
    /\ startup
    /\ audit' = Some([table |-> "notifications", by |-> 0, before |-> notifications])

\* days pass
Tick ==
    /\ \E d \in Days : d > now /\ now' = d
    /\ UNCHANGED <<store, response, audit, fault, requests, opened>>

NextSweep ==
    \/ SweepBookAppointment
    \/ SweepAcceptAppointment
    \/ SweepGetNotifications
    \/ SweepMarkNotificationsRead
    \/ Startup
    \/ Tick

SpecSweep == Init /\ [][NextSweep]_vars

(***************************************************************************)
(* routes/auth.py signup, doctor_signup and edit_profile, and the          *)
(* statements of database.py they run.  The forms carry the fields the     *)
(* handlers test or store in the modelled columns; phone, gender and dob   *)
(* are left out.  A number is sent as text: int() and float() raise        *)
(* ValueError on a text that is no number, and the storage binds the float *)
(* nan as NULL.                                                            *)
(***************************************************************************)
MinPasswordLength == 6

\* str.lower() on the letters of the model's texts
lower_char(c) ==
    CASE c = "A" -> "a" [] c = "B" -> "b" [] c = "D" -> "d" [] c = "P" -> "p"
      [] OTHER -> c

lower(s) == [i \in 1 .. Len(s) |-> lower_char(s[i])]

DigitValue ==
    ("0" :> 0) @@ ("1" :> 1) @@ ("2" :> 2) @@ ("3" :> 3) @@ ("4" :> 4) @@
    ("5" :> 5) @@ ("6" :> 6) @@ ("7" :> 7) @@ ("8" :> 8) @@ ("9" :> 9)

IsDigits(s) == s # <<>> /\ \A i \in 1 .. Len(s) : s[i] \in DOMAIN DigitValue

RECURSIVE digits_value(_)
digits_value(s) ==
    IF s = <<>> THEN 0 ELSE 10 * digits_value(SubSeq(s, 1, Len(s) - 1)) + DigitValue[s[Len(s)]]

Parsed(value) == [raises |-> FALSE, value |-> value]

ValueError == [raises |-> TRUE, value |-> NULL]

\* int(text): surrounding whitespace is allowed
int(text) == IF IsDigits(strip(text)) THEN Parsed(digits_value(strip(text))) ELSE ValueError

\* float(text), as the column then holds it: a number, or NULL for nan
float(text) ==
    IF IsDigits(strip(text)) THEN Parsed(Some(digits_value(strip(text))))
    ELSE IF lower(strip(text)) = <<"n", "a", "n">> THEN Parsed(NULL)
    ELSE ValueError

\* value or None
or_None(text) == IF text = <<>> THEN NULL ELSE Some(text)

\* SELECT * FROM users WHERE email = ?
get_user_by_email(us, email) == {u \in us : u.email = email}

\* Mutant: users.email without its UNIQUE constraint.
email_unconstrained(us, email) == TRUE

\* users.email TEXT UNIQUE NOT NULL: insert_user raises when the email is taken
email_unique(us, email) == \A u \in us : u.email # email

insert_user(us, id, full_name, email, role) ==
    us \cup {UserRow(id, full_name, email, role)}

\* patient_details.user_id / doctor_details.user_id: UNIQUE, REFERENCES users(id)
details_ok(details, us, user_id) ==
    user_id \in Ids(us) /\ \A d \in details : d.user_id # user_id

insert_patient_details(pds, id, user_id, blood_group) ==
    pds \cup {PatientDetailsRow(id, user_id, blood_group)}

insert_doctor_details(dds, id, user_id, specialization, qualification, experience_years, consultation_fee) ==
    dds \cup {DoctorDetailsRow(id, user_id, specialization, qualification,
                                experience_years, consultation_fee)}

\* SELECT u.*, d.* FROM users u JOIN doctor_details d ON u.id = d.user_id
\* WHERE u.id = ?   (fetchone: a row, or None)
get_doctor_details(us, dds, doctor_id) ==
    {[user |-> t[1], specialization |-> t[2].specialization,
      qualification |-> t[2].qualification, experience_years |-> t[2].experience_years,
      consultation_fee |-> t[2].consultation_fee] :
        t \in {t \in us \X dds : t[1].id = doctor_id /\ t[2].user_id = t[1].id}}

\* What both signup handlers answer before they write: the form refused, or
\* the email found registered; NULL when the handler goes on to insert.
signup_refused(form, required) ==
    IF \E field \in required : field = <<>>
    THEN Some(Flash("danger", "Please fill in all required fields."))
    ELSE IF form.password # form.confirm_password
    THEN Some(Flash("danger", "Passwords do not match."))
    ELSE IF Len(form.password) < MinPasswordLength
    THEN Some(Flash("danger", "Password must be at least 6 characters long."))
    ELSE IF get_user_by_email(users, lower(strip(form.email))) # {}
    THEN Some(Flash("danger", "Email already registered. Please login."))
    ELSE NULL

\* routes/auth.py signup (POST)
signup(form) ==
    LET full_name == strip(form.full_name)
        email == lower(strip(form.email))
        refused == signup_refused(form, {full_name, email, form.password})
        user_id == NextId("users")
        inserted == insert_user(users, user_id, full_name, email, "PATIENT")
    IN  /\ UNCHANGED <<doctor_details, appointments, prescriptions, uploads,
                       notifications, now>>
        /\ IF refused # NULL
           THEN /\ response' = Val(refused)
                /\ UNCHANGED <<users, patient_details, seq>>
           ELSE IF ~email_unique(users, email) \/ Raises(1)
           THEN /\ response' = Flash("danger", "Error creating account")
                /\ UNCHANGED <<users, patient_details, seq>>
           ELSE /\ users' = inserted
                /\ IF ~details_ok(patient_details, inserted, user_id) \/ Raises(2)
                   THEN /\ response' = Flash("danger", "Error creating account")
                        /\ patient_details' = patient_details
                        /\ seq' = Bump(seq, "users")
                   ELSE /\ patient_details' =
                             insert_patient_details(patient_details,
                                 NextId("patient_details"), user_id,
                                 Some(strip(form.blood_group)))
                        /\ seq' = Bump(Bump(seq, "users"), "patient_details")
                        /\ response' =
                               Flash("success", "Account created successfully! Please login.")

\* Mutant: the texts of the form are stored as they were sent.
doctor_details_unstripped(form) ==
    [specialization |-> form.specialization,
     qualification |-> Some(form.qualification),
     experience_years |->
         IF form.experience_years # <<>> THEN int(form.experience_years) ELSE Parsed(0),
     consultation_fee |->
         IF form.consultation_fee # <<>> THEN float(form.consultation_fee)
         ELSE Parsed(Some(0))]

\* doctor_signup: the doctor's details as the handler hands them to
\* insert_doctor_details, with the numbers parsed or raising
doctor_details_of(form) ==
    [specialization |-> strip(form.specialization),
     qualification |-> Some(strip(form.qualification)),
     experience_years |->
         IF strip(form.experience_years) # <<>> THEN int(strip(form.experience_years))
         ELSE Parsed(0),
     consultation_fee |->
         IF strip(form.consultation_fee) # <<>> THEN float(strip(form.consultation_fee))
         ELSE Parsed(Some(0))]

\* routes/auth.py doctor_signup (POST).  insert_user returns the new id,
\* which is never 0.
doctor_signup(form) ==
    LET full_name == strip(form.full_name)
        email == lower(strip(form.email))
        details == doctor_details_of(form)
        refused == signup_refused(form,
                       {full_name, email, form.password, details.specialization})
        user_id == NextId("users")
        inserted == insert_user(users, user_id, full_name, email, "DOCTOR")
    IN  /\ UNCHANGED <<patient_details, appointments, prescriptions, uploads,
                       notifications, now>>
        /\ IF refused # NULL
           THEN /\ response' = Val(refused)
                /\ UNCHANGED <<users, doctor_details, seq>>
           ELSE IF ~email_unique(users, email) \/ Raises(1)
           THEN /\ response' = Flash("danger", "Error creating account")
                /\ UNCHANGED <<users, doctor_details, seq>>
           ELSE /\ users' = inserted
                /\ IF \/ details.experience_years.raises
                      \/ details.consultation_fee.raises
                      \/ ~details_ok(doctor_details, inserted, user_id)
                      \/ Raises(2)
                   THEN /\ response' =
                               Flash("warning", "Account created but error saving doctor details")
                        /\ doctor_details' = doctor_details
                        /\ seq' = Bump(seq, "users")
                   ELSE /\ doctor_details' =
                             insert_doctor_details(doctor_details,
                                 NextId("doctor_details"), user_id,
                                 details.specialization, details.qualification,
                                 details.experience_years.value,
                                 details.consultation_fee.value)
                        /\ seq' = Bump(Bump(seq, "users"), "doctor_details")
                        /\ response' =
                               Flash("success", "Doctor account created successfully! Please login.")

\* UPDATE users SET full_name = ?, phone = ?, gender = ?, dob = ? WHERE id = ?
update_user_basic_info(us, user_id, full_name) ==
    {IF u.id = user_id THEN [u EXCEPT !.full_name = full_name] ELSE u : u \in us}

\* UPDATE patient_details SET blood_group = ?, ... WHERE user_id = ?
update_patient_details(pds, user_id, blood_group) ==
    {IF d.user_id = user_id THEN [d EXCEPT !.blood_group = blood_group] ELSE d : d \in pds}

\* UPDATE doctor_details SET specialization = ?, ... WHERE user_id = ?
update_doctor_details(dds, user_id, specialization, qualification, experience_years, consultation_fee) ==
    {IF d.user_id = user_id
        THEN [d EXCEPT !.specialization = specialization,
                       !.qualification = qualification,
                       !.experience_years = experience_years,
                       !.consultation_fee = consultation_fee]
        ELSE d : d \in dds}

\* routes/auth.py edit_profile (POST), behind login_required.  The numbers
\* are parsed as the form sent them; when one raises, the users row is
\* already updated.
edit_profile(session, form) ==
    /\ UNCHANGED <<appointments, prescriptions, uploads, notifications, seq, now>>
    /\ IF ~session.logged_in
       THEN /\ response' = Flash("warning", "Please login to access this page.")
            /\ UNCHANGED people
       ELSE LET user_id == Val(session.user_id)
                experience_years ==
                    IF form.experience_years # <<>> THEN int(form.experience_years)
                    ELSE Parsed(0)
                consultation_fee ==
                    IF form.consultation_fee # <<>> THEN float(form.consultation_fee)
                    ELSE Parsed(Some(0))
            IN  IF Raises(1)
                THEN /\ response' = Flash("danger", "Error updating profile")
                     /\ UNCHANGED people
                ELSE /\ users' = update_user_basic_info(users, user_id, strip(form.full_name))
                     /\ IF session.role = Some("PATIENT")
                        THEN /\ doctor_details' = doctor_details
                             /\ IF Raises(2)
                                THEN /\ patient_details' = patient_details
                                     /\ response' = Flash("danger", "Error updating profile")
                                ELSE /\ patient_details' =
                                          update_patient_details(patient_details, user_id,
                                              or_None(strip(form.blood_group)))
                                     /\ response' =
                                            Flash("success", "Profile updated successfully!")
                        ELSE /\ session.role = Some("DOCTOR")
                             /\ patient_details' = patient_details
                             /\ IF \/ experience_years.raises
                                   \/ consultation_fee.raises
                                   \/ Raises(2)
                                THEN /\ doctor_details' = doctor_details
                                     /\ response' = Flash("danger", "Error updating profile")
                                ELSE /\ doctor_details' =
                                          update_doctor_details(doctor_details, user_id,
                                              strip(form.specialization),
                                              or_None(strip(form.qualification)),
                                              experience_years.value,
                                              consultation_fee.value)
                                     /\ response' =
                                            Flash("success", "Profile updated successfully!")

(***************************************************************************)
(* Accounts (SpecSignup): the signup requests one after the other, and     *)
(* profile edits by whoever is logged in.  The emails of the forms meet    *)
(* after normalisation, and one is registered already.                     *)
(***************************************************************************)
GoodPassword == <<"s", "e", "c", "r", "e", "t">>

DoctorForm(email, specialization, qualification, experience_years, consultation_fee) ==
    [full_name |-> <<"n">>, email |-> email,
     password |-> GoodPassword, confirm_password |-> GoodPassword,
     specialization |-> specialization, qualification |-> qualification,
     experience_years |-> experience_years, consultation_fee |-> consultation_fee]

DoctorForms ==
    {DoctorForm(<<"a">>, <<" ", "s">>, <<"q", " ">>, <<"0", "5">>, <<"5">>),
     DoctorForm(<<"A", " ">>, <<"s">>, <<>>, <<>>, <<>>),
     DoctorForm(<<"b">>, <<"s">>, <<>>, <<"x">>, <<"5">>),
     DoctorForm(<<"b">>, <<"s">>, <<>>, <<"5">>, <<"n", "a", "n">>),
     DoctorForm(<<"b">>, <<" ">>, <<>>, <<>>, <<>>),
     DoctorForm(<<"D", "1">>, <<"s">>, <<>>, <<>>, <<>>),
     [DoctorForm(<<"b">>, <<"s">>, <<>>, <<>>, <<>>) EXCEPT !.confirm_password = <<"x">>],
     [DoctorForm(<<"b">>, <<"s">>, <<>>, <<>>, <<>>)
         EXCEPT !.password = <<"p">>, !.confirm_password = <<"p">>]}

PatientForm(email, blood_group) ==
    [full_name |-> <<"n">>, email |-> email,
     password |-> GoodPassword, confirm_password |-> GoodPassword,
     blood_group |-> blood_group]

PatientForms ==
    {PatientForm(<<"a">>, <<"o", " ">>), PatientForm(<<" ", "A">>, <<>>),
     PatientForm(<<"P", "1">>, <<>>), PatientForm(<<" ">>, <<>>)}

EditForm(full_name, experience_years) ==
    [full_name |-> full_name, blood_group |-> <<>>,
     specialization |-> <<"t">>, qualification |-> <<>>,
     experience_years |-> experience_years, consultation_fee |-> <<"7">>]

EditForms == {EditForm(<<"m">>, <<"7">>), EditForm(<<"m">>, <<"x">>)}

MaxUsers == 6

\* The audit entry of a signup request: the form, and the id the new user
\* gets if one is created.
Signed(table, form) ==
    audit' = Some([table |-> table, form |-> form, user_id |-> NextId("users")])

Signup ==
    /\ Healthy
    /\ CanInsert("users", MaxUsers)
    /\ \E form \in PatientForms : signup(form) /\ Signed("patient_details", form)

DoctorSignup ==
    /\ Healthy
    /\ CanInsert("users", MaxUsers)
    /\ \E form \in DoctorForms : doctor_signup(form) /\ Signed("doctor_details", form)

\* who edits: nobody logged in, a registered patient, a registered doctor,
\* and every user who signed up since
EditSessions ==
    NotifSessions \cup {SessionOf(u) : u \in {u \in users : u.id > MaxId(RegisteredUsers)}}

EditProfile ==
    /\ Healthy
    /\ \E s \in EditSessions, form \in EditForms :
           /\ edit_profile(s, form)
           /\ audit' = Some([table |-> "profile", by |-> s.user_id])

NextSignup == Signup \/ DoctorSignup \/ EditProfile

SpecSignup == Init /\ [][NextSignup]_vars

(***************************************************************************)
(* Storage failures (SpecFault): the operations made of two write          *)
(* statements, by a registered patient and a registered doctor, with the   *)
(* storage raising at the first statement, at the second, or not at all.   *)
(***************************************************************************)
FaultMaxUsers == 5

FaultMaxAppointments == 1

FaultMaxNotifications == 2

FaultMaxPrescriptions == 1

FaultDoctorForms ==
    {DoctorForm(<<"a">>, <<"s">>, <<"q">>, <<"5">>, <<"5">>),
     DoctorForm(<<"b">>, <<"s">>, <<>>, <<>>, <<>>)}

FaultPrescriptionForm == PrescriptionForm(<<"a">>, <<>>, <<>>, <<>>, <<>>)

FaultDoctorSignup ==
    /\ Failing(2)
    /\ CanInsert("users", FaultMaxUsers)
    /\ \E form \in FaultDoctorForms : doctor_signup(form)
    /\ audit' = NULL

FaultBookAppointment ==
    /\ Failing(2)
    /\ CanInsert("appointments", FaultMaxAppointments)
    /\ CanInsert("notifications", FaultMaxNotifications)
    /\ book_appointment(SessionOf(PickedPatient), FormInt(PickedDoctor.id),
                        Some(1), Some("10:00"), NULL)
    /\ audit' = NULL

FaultAcceptAppointment ==
    /\ Failing(2)
    /\ CanInsert("notifications", FaultMaxNotifications)
    /\ \E a \in 1 .. FaultMaxAppointments : accept_appointment(SessionOf(PickedDoctor), a)
    /\ audit' = NULL

FaultRejectAppointment ==
    /\ Failing(2)
    /\ CanInsert("notifications", FaultMaxNotifications)
    /\ \E a \in 1 .. FaultMaxAppointments : reject_appointment(SessionOf(PickedDoctor), a)
    /\ audit' = NULL

FaultWritePrescription ==
    /\ Failing(2)
    /\ CanInsert("prescriptions", FaultMaxPrescriptions)
    /\ CanInsert("notifications", FaultMaxNotifications)
    /\ \E a \in 1 .. FaultMaxAppointments :
           write_prescription(SessionOf(PickedDoctor), "POST", PickedPatient.id,
                              a, FaultPrescriptionForm)
    /\ audit' = NULL

NextFault ==
    \/ FaultDoctorSignup
    \/ FaultBookAppointment
    \/ FaultAcceptAppointment
    \/ FaultRejectAppointment
    \/ FaultWritePrescription

SpecFault == Init /\ [][NextFault]_vars

(***************************************************************************)
(* Concurrent signups (SpecRace): the server handles requests in threads,  *)
(* so the statements of two signup requests interleave.  A request in      *)
(* flight has passed the checks of its form and the get_user_by_email      *)
(* test, and stands before insert_user or before the insert of its details *)
(* row; each statement is its own transaction.                             *)
(***************************************************************************)
MaxRequests == 2

RaceMaxUsers == 6

RacePatientForms ==
    {PatientForm(<<"a">>, <<>>), PatientForm(<<" ", "A">>, <<>>),
     PatientForm(<<"P", "1">>, <<>>)}

RaceDoctorForms ==
    {DoctorForm(<<"A", " ">>, <<"s">>, <<>>, <<>>, <<>>),
     DoctorForm(<<"b">>, <<"s">>, <<>>, <<"x">>, <<>>)}

\* signup / doctor_signup: the fields that must be filled in
required_fields(role, form) ==
    {strip(form.full_name), lower(strip(form.email)), form.password}
        \cup (IF role = "DOCTOR" THEN {strip(form.specialization)} ELSE {})

Request(rid, role, form, pc, user_id) ==
    [rid |-> rid, role |-> role, form |-> form, pc |-> pc, user_id |-> user_id]

\* The request arrives: the form is checked and the email looked up.
Submit(role, form) ==
    LET refused == signup_refused(form, required_fields(role, form)) IN
    /\ Cardinality(requests) < MaxRequests
    /\ IF refused # NULL
       THEN /\ response' = Val(refused)
            /\ requests' = requests
       ELSE \E rid \in 1 .. MaxRequests :
                /\ \A r \in requests : r.rid # rid
                /\ requests' = requests \cup {Request(rid, role, form, "insert_user", NULL)}
                /\ response' = response
    /\ audit' = NULL
    /\ UNCHANGED <<store, now, opened>>

SubmitSignup ==
    /\ fault' = 0
    /\ \E form \in RacePatientForms : Submit("PATIENT", form)

SubmitDoctorSignup ==
    /\ fault' = 0
    /\ \E form \in RaceDoctorForms : Submit("DOCTOR", form)

\* insert_user of a request in flight; the UNIQUE constraint raises into the
\* handler's except, which answers 'Error creating account'.
InsertUser ==
    \E r \in requests :
        LET email == lower(strip(r.form.email))
            user_id == NextId("users")
        IN  /\ fault' = 0
            /\ r.pc = "insert_user"
            /\ CanInsert("users", RaceMaxUsers)
            /\ IF ~email_unique(users, email)
               THEN /\ response' = Flash("danger", "Error creating account")
                    /\ requests' = requests \ {r}
                    /\ UNCHANGED <<users, seq>>
               ELSE /\ users' = insert_user(users, user_id, strip(r.form.full_name),
                                            email, r.role)
                    /\ seq' = Bump(seq, "users")
                    /\ requests' =
                           (requests \ {r}) \cup
                               {Request(r.rid, r.role, r.form, "insert_details", Some(user_id))}
                    /\ response' = response
            /\ audit' = Some([table |-> "users", email |-> email,
                              taken |-> ~email_unique(users, email)])
            /\ UNCHANGED <<patient_details, doctor_details, appointments, prescriptions,
                           uploads, notifications, now, opened>>

\* insert_patient_details / insert_doctor_details of a request in flight, and
\* the handler's answer.
InsertDetails ==
    \E r \in requests :
        LET user_id == Val(r.user_id) IN
        /\ fault' = 0
        /\ r.pc = "insert_details"
        /\ requests' = requests \ {r}
        /\ IF r.role = "PATIENT"
           THEN /\ doctor_details' = doctor_details
                /\ IF ~details_ok(patient_details, users, user_id)
                   THEN /\ response' = Flash("danger", "Error creating account")
                        /\ UNCHANGED <<patient_details, seq>>
                   ELSE /\ patient_details' =
                               insert_patient_details(patient_details,
                                   NextId("patient_details"), user_id,
                                   Some(strip(r.form.blood_group)))
                        /\ seq' = Bump(seq, "patient_details")
                        /\ response' =
                               Flash("success", "Account created successfully! Please login.")
           ELSE LET details == doctor_details_of(r.form) IN
                /\ patient_details' = patient_details
                /\ IF \/ details.experience_years.raises
                      \/ details.consultation_fee.raises
                      \/ ~details_ok(doctor_details, users, user_id)
                   THEN /\ response' =
                               Flash("warning", "Account created but error saving doctor details")
                        /\ UNCHANGED <<doctor_details, seq>>
                   ELSE /\ doctor_details' =
                               insert_doctor_details(doctor_details,
                                   NextId("doctor_details"), user_id,
                                   details.specialization, details.qualification,
                                   details.experience_years.value,
                                   details.consultation_fee.value)
                        /\ seq' = Bump(seq, "doctor_details")
                        /\ response' =
                               Flash("success", "Doctor account created successfully! Please login.")
        /\ audit' = NULL
        /\ UNCHANGED <<users, appointments, prescriptions, uploads, notifications,
                       now, opened>>

RaceEditProfile ==
    /\ Healthy
    /\ \E s \in EditSessions : edit_profile(s, EditForm(<<"m">>, <<"7">>))
    /\ audit' = NULL

NextRace ==
    \/ SubmitSignup
    \/ SubmitDoctorSignup
    \/ InsertUser
    \/ InsertDetails
    \/ RaceEditProfile

SpecRace == Init /\ [][NextRace]_vars

(***************************************************************************)
(* Ids that resolve or not (SpecRefs): a registered patient books and      *)
(* cancels, a registered doctor accepts, completes and writes              *)
(* prescriptions, each naming an appointment or a patient that exists or   *)
(* one that does not.                                                      *)
(***************************************************************************)
RefsMaxNotifications == 5

RefsPrescriptionForm == PrescriptionForm(<<"a">>, <<>>, <<>>, <<>>, <<>>)

\* The audit entry of a request that names a row by its id.
Referred(op, id) == Some([op |-> op, id |-> id])

RefsBookAppointment ==
    /\ Healthy
    /\ CanInsert("appointments", MaxAppointments)
    /\ CanInsert("notifications", RefsMaxNotifications)
    /\ book_appointment(SessionOf(PickedPatient), FormInt(PickedDoctor.id),
                        Some(1), Some("10:00"), NULL)
    /\ audit' = NULL

RefsAcceptAppointment ==
    /\ Healthy
    /\ CanInsert("notifications", RefsMaxNotifications)
    /\ \E a \in 1 .. MaxAppointments : accept_appointment(SessionOf(PickedDoctor), a)
    /\ audit' = NULL

RefsCompleteAppointment ==
    /\ Healthy
    /\ \E a \in AppointmentIdInputs :
           /\ complete_appointment(SessionOf(PickedDoctor), a)
           /\ audit' = Referred("complete_appointment", a)

RefsCancelAppointment ==
    /\ Healthy
    /\ \E a \in AppointmentIdInputs :
           /\ cancel_appointment_route(SessionOf(PickedPatient), a)
           /\ audit' = Referred("cancel_appointment_route", a)

RefsWritePrescription ==
    /\ Healthy
    /\ CanInsert("prescriptions", MaxPrescriptions)
    /\ CanInsert("notifications", RefsMaxNotifications)
    /\ \E p \in {PickedPatient.id, UnknownId}, a \in 1 .. MaxAppointments :
           /\ a \in Ids(appointments)
           /\ write_prescription(SessionOf(PickedDoctor), "POST", p, a, RefsPrescriptionForm)
           /\ audit' = Referred("write_prescription", p)

NextRefs ==
    \/ RefsBookAppointment
    \/ RefsAcceptAppointment
    \/ RefsCompleteAppointment
    \/ RefsCancelAppointment
    \/ RefsWritePrescription

SpecRefs == Init /\ [][NextRefs]_vars

(***************************************************************************)
(* Concurrent decisions (SpecDecide): accept_appointment and               *)
(* reject_appointment statement by statement, for the runs in which the    *)
(* requests of the doctors interleave.  A request in flight has run its    *)
(* SELECT and holds the row it found; it stands before its UPDATE or       *)
(* before create_notification.                                             *)
(***************************************************************************)
DecideMaxAppointments == 1

DecideMaxNotifications == 3

Decision(rid, status, type, text, link, done, failed, appointment_id, found, pc) ==
    [rid |-> rid, status |-> status, type |-> type, text |-> text, link |-> link,
     done |-> done, failed |-> failed, appointment_id |-> appointment_id,
     found |-> found, pc |-> pc]

\* The audit entry of a statement of a decision: the statement and its request.
Stepped(pc, r) == Some([step |-> pc, request |-> r])

DecideBookAppointment ==
    /\ Healthy
    /\ CanInsert("appointments", DecideMaxAppointments)
    /\ CanInsert("notifications", DecideMaxNotifications)
    /\ book_appointment(SessionOf(PickedPatient), FormInt(PickedDoctor.id),
                        Some(1), Some("10:00"), NULL)
    /\ audit' = NULL

\* SELECT patient_id, date, time FROM appointments WHERE id = ?
SelectAppointment(appointment_id, status, type, text, link, done, failed) ==
    /\ Cardinality(requests) < MaxRequests
    /\ seq["notifications"] + Cardinality(requests) < DecideMaxNotifications
    /\ \E rid \in 1 .. MaxRequests :
           /\ \A r \in requests : r.rid # rid
           /\ requests' = requests \cup
                  {Decision(rid, status, type, text, link, done, failed, appointment_id,
                            {a \in appointments : a.id = appointment_id}, "update")}
    /\ audit' = NULL
    /\ UNCHANGED <<store, now, response, opened>>

BeginAccept ==
    /\ fault' = 0
    /\ \E s \in {SessionOf(u) : u \in Doctors}, a \in 1 .. DecideMaxAppointments :
           /\ role_required(s, "DOCTOR") = "ok"
           /\ SelectAppointment(a, "CONFIRMED", "APPOINTMENT_ACCEPTED",
                  "accepted your appointment", Some("/patient/appointments"),
                  Flash("success", "Appointment confirmed successfully!"),
                  Flash("danger", "Error confirming appointment"))

BeginReject ==
    /\ fault' = 0
    /\ \E s \in {SessionOf(u) : u \in Doctors}, a \in 1 .. DecideMaxAppointments :
           /\ role_required(s, "DOCTOR") = "ok"
           /\ SelectAppointment(a, "REJECTED", "APPOINTMENT_REJECTED",
                  "declined your appointment request", NULL,
                  Flash("info", "Appointment rejected."),
                  Flash("danger", "Error rejecting appointment"))

\* update_appointment_status of a request in flight
UpdateStatus ==
    \E r \in requests :
        /\ fault' = 0
        /\ r.pc = "update"
        /\ appointments' =
               update_appointment_status(appointments, r.appointment_id, r.status)
        /\ requests' = (requests \ {r}) \cup {[r EXCEPT !.pc = "notify"]}
        /\ audit' = Stepped("update", r)
        /\ UNCHANGED <<people, prescriptions, uploads, notifications, seq, now,
                       response, opened>>

\* the message built from the row found, create_notification, and the flash
NotifyPatient ==
    \E r \in requests :
        /\ fault' = 0
        /\ r.pc = "notify"
        /\ requests' = requests \ {r}
        /\ IF r.found = {}
           THEN /\ response' = r.failed
                /\ UNCHANGED <<notifications, seq>>
           ELSE LET appointment == CHOOSE a \in r.found : TRUE
                IN  IF ~notification_fk_ok(appointment.patient_id,
                                           Some(r.appointment_id), NULL,
                                           appointments, prescriptions)
                    THEN /\ response' = r.failed
                         /\ UNCHANGED <<notifications, seq>>
                    ELSE /\ notifications' =
                              create_notification(notifications, NextId("notifications"),
                                  appointment.patient_id, r.type,
                                  Message(r.text, Some(appointment.date),
                                          Some(appointment.time)),
                                  r.link, Some(r.appointment_id), NULL)
                         /\ seq' = Bump(seq, "notifications")
                         /\ response' = r.done
        /\ audit' = Stepped("notify", r)
        /\ UNCHANGED <<people, appointments, prescriptions, uploads, now, opened>>

NextDecide ==
    \/ DecideBookAppointment
    \/ BeginAccept
    \/ BeginReject
    \/ UpdateStatus
    \/ NotifyPatient

SpecDecide == Init /\ [][NextDecide]_vars

(***************************************************************************)
(* routes/doctor.py and routes/patient.py mark_notifications_read, one     *)
(* statement at a time (SpecPanel): the UPDATE of                          *)
(* mark_notifications_as_read and the DELETE of delete_read_notifications  *)
(* are committed separately, so other requests run between them.  A        *)
(* request between its two statements is kept in requests with the ids of  *)
(* the user's rows at its UPDATE.                                          *)
(***************************************************************************)
PanelMaxAppointments == 2

PanelMaxNotifications == 2

PanelDays == {0, ReadRetentionDays + 1}

Purge(rid, user_id, marked) ==
    [rid |-> rid, user_id |-> user_id, marked |-> marked, pc |-> "delete"]

Purged(pc, r) == Some([table |-> "notifications", step |-> pc, request |-> r])

PanelBookAppointment ==
    /\ Healthy
    /\ CanInsert("appointments", PanelMaxAppointments)
    /\ CanInsert("notifications", PanelMaxNotifications)
    /\ book_appointment(SessionOf(PickedPatient), FormInt(PickedDoctor.id),
                        Some(1), Some("10:00"), NULL)
    /\ audit' = NULL

\* mark_notifications_as_read(session['user_id']) and its commit
MarkAsRead ==
    /\ fault' \in {0, 1}
    /\ Cardinality(requests) < MaxRequests
    /\ UNCHANGED <<people, appointments, prescriptions, uploads, seq, now, opened>>
    /\ \E rid \in 1 .. MaxRequests :
           /\ \A r \in requests : r.rid # rid
           /\ LET user_id == PickedDoctor.id
                  r == Purge(rid, user_id,
                             {n.id : n \in {m \in notifications : m.user_id = user_id}})
              IN  IF Raises(1)
                  THEN /\ response' = Flash("500", "Internal Server Error")
                       /\ UNCHANGED <<notifications, requests>>
                       /\ audit' = NULL
                  ELSE /\ notifications' = mark_notifications_as_read(notifications, user_id)
                       /\ requests' = requests \cup {r}
                       /\ UNCHANGED response
                       /\ audit' = Purged("update", r)

\* delete_read_notifications(session['user_id']), its commit and the answer
DeleteRead ==
    /\ fault' \in {0, 1}
    /\ UNCHANGED <<people, appointments, prescriptions, uploads, seq, now, opened>>
    /\ \E r \in requests :
           /\ requests' = requests \ {r}
           /\ audit' = Purged("delete", r)
           /\ IF Raises(1)
              THEN /\ response' = Flash("500", "Internal Server Error")
                   /\ UNCHANGED notifications
              ELSE /\ notifications' = delete_read_notifications(notifications, r.user_id)
                   /\ response' = Json("success", TRUE)

PanelGetNotifications ==
    /\ Healthy
    /\ get_notifications(SessionOf(PickedDoctor), "DOCTOR")
    /\ audit' = Viewed(SessionOf(PickedDoctor), "DOCTOR")

PanelTick ==
    /\ \E d \in PanelDays : d > now /\ now' = d
    /\ audit' = NULL
    /\ UNCHANGED <<store, response, fault, requests, opened>>

NextPanel ==
    \/ PanelBookAppointment
    \/ MarkAsRead
    \/ DeleteRead
    \/ PanelGetNotifications
    \/ PanelTick

SpecPanel == Init /\ [][NextPanel]_vars

(***************************************************************************)
(* database.py get_patient_appointments, get_doctor_stats and the pages    *)
(* that show them.  A listing is the set of its rows; the order of the     *)
(* rows is left out.                                                       *)
(***************************************************************************)
Render(template, body) == [category |-> "render", message |-> template, body |-> body]

\* SELECT a.*, ... FROM appointments a JOIN users u ON a.doctor_id = u.id
\* JOIN doctor_details d ON u.id = d.user_id WHERE a.patient_id = ?
get_patient_appointments(appts, patient_id) ==
    {[appointment |-> a, doctor_name |-> u.full_name,
      specialization |-> d.specialization, consultation_fee |-> d.consultation_fee] :
        <<a, u, d>> \in {t \in appts \X users \X doctor_details :
                            /\ t[1].doctor_id = t[2].id
                            /\ t[2].id = t[3].user_id
                            /\ t[1].patient_id = patient_id}}

\* routes/patient.py appointments
patient_appointments(session) ==
    \/ Denied(session, "PATIENT")
    \/ /\ role_required(session, "PATIENT") = "ok"
       /\ response' =
              Render("patient_appointments.html",
                     {apt \in get_patient_appointments(appointments, Val(session.user_id)) :
                         apt.appointment.status # "REJECTED"})
       /\ UNCHANGED <<store, now>>

\* date.today()
today == now

\* Mutant: COUNT(patient_id), every row counted.
count_patient_id(rows) == Cardinality(rows)

\* COUNT(DISTINCT patient_id)
count_distinct_patient_id(rows) == Cardinality({r.patient_id : r \in rows})

get_doctor_stats(appts, doctor_id) ==
    [pending_appointments |->
         Cardinality({a \in appts : a.doctor_id = doctor_id /\ a.status = "PENDING"}),
     today_appointments |->
         Cardinality({a \in appts : /\ a.doctor_id = doctor_id
                                    /\ a.date = today
                                    /\ a.status \in {"CONFIRMED", "COMPLETED"}}),
     total_patients |->
         count_distinct_patient_id({a \in appts : /\ a.doctor_id = doctor_id
                                                  /\ a.status \in {"CONFIRMED", "COMPLETED"}})]

\* routes/doctor.py dashboard
dashboard(session) ==
    \/ Denied(session, "DOCTOR")
    \/ /\ role_required(session, "DOCTOR") = "ok"
       /\ response' = Render("doctor_dashboard.html",
                             get_doctor_stats(appointments, Val(session.user_id)))
       /\ UNCHANGED <<store, now>>

\* Mutant: the roster is built from every appointment with the doctor.
booked_with(appts, doctor_id) == {a \in appts : a.doctor_id = doctor_id}

\* WHERE a.doctor_id = ? AND a.status IN ('CONFIRMED', 'COMPLETED')
seen_by(appts, doctor_id) ==
    {a \in appts : a.doctor_id = doctor_id /\ a.status \in {"CONFIRMED", "COMPLETED"}}

\* MAX(a.date)
max_date(rows) == CHOOSE d \in {a.date : a \in rows} : \A a \in rows : a.date <= d

\* database.py get_doctor_patients, the groups of the query: users JOIN
\* patient_details JOIN appointments, GROUP BY the user
doctor_patients_groups(appts, doctor_id) ==
    {[id |-> u.id, full_name |-> u.full_name, blood_group |-> p.blood_group,
      total_appointments |->
          Cardinality({a.id : a \in {a \in seen_by(appts, doctor_id) : a.patient_id = u.id}}),
      last_visit |-> max_date({a \in seen_by(appts, doctor_id) : a.patient_id = u.id}),
      completed_appointments |->
          Cardinality({a \in seen_by(appts, doctor_id) :
                          a.patient_id = u.id /\ a.status = "COMPLETED"})] :
        <<u, p>> \in {t \in users \X patient_details :
                         /\ t[1].id = t[2].user_id
                         /\ \E a \in seen_by(appts, doctor_id) : a.patient_id = t[1].id}}

\* ORDER BY MAX(a.date) DESC: the lists the query may return, groups of one
\* date in any order
get_doctor_patients(appts, doctor_id) ==
    LET groups == doctor_patients_groups(appts, doctor_id)
        n == Cardinality(groups)
    IN  {rows \in [1 .. n -> groups] :
            /\ \A i \in 1 .. n, j \in 1 .. n : i # j => rows[i] # rows[j]
            /\ \A i \in 1 .. n, j \in 1 .. n :
                   i < j => rows[i].last_visit >= rows[j].last_visit}

\* routes/doctor.py patients
patients(session) ==
    \/ Denied(session, "DOCTOR")
    \/ /\ role_required(session, "DOCTOR") = "ok"
       /\ \E patients_list \in get_doctor_patients(appointments, Val(session.user_id)) :
              response' = Render("doctor_patients.html", patients_list)
       /\ UNCHANGED <<store, now>>

(***************************************************************************)
(* SpecList: patients book for today and tomorrow with a doctor, another   *)
(* doctor or (a form the booking page does not offer) a patient's id; a    *)
(* doctor decides; every caller opens the patient's listing.               *)
(***************************************************************************)
ListDoctorIdFields == {FormInt(u.id) : u \in Doctors \cup {PickedPatient}}

ListDateFields == {Some(today), Some(today + 1)}

\* The audit entry of a page: who asked for it.
Asked(session, role) ==
    IF role_required(session, role) = "ok"
    THEN Some([table |-> "appointments", by |-> Val(session.user_id)])
    ELSE NULL

ListBookAppointment ==
    /\ Healthy
    /\ CanInsert("appointments", MaxAppointments)
    /\ CanInsert("notifications", ListMaxNotifications)
    /\ \E s \in {SessionOf(u) : u \in Patients}, d \in ListDoctorIdFields,
          date \in ListDateFields :
           book_appointment(s, d, date, Some("10:00"), NULL)
    /\ audit' = NULL

ListAcceptAppointment ==
    /\ Healthy
    /\ CanInsert("notifications", ListMaxNotifications)
    /\ \E a \in 1 .. MaxAppointments : accept_appointment(SessionOf(PickedDoctor), a)
    /\ audit' = NULL

ListRejectAppointment ==
    /\ Healthy
    /\ CanInsert("notifications", ListMaxNotifications)
    /\ \E a \in 1 .. MaxAppointments : reject_appointment(SessionOf(PickedDoctor), a)
    /\ audit' = NULL

ListCompleteAppointment ==
    /\ Healthy
    /\ \E a \in 1 .. MaxAppointments : complete_appointment(SessionOf(PickedDoctor), a)
    /\ audit' = NULL

PatientAppointments ==
    /\ Healthy
    /\ \E s \in Sessions : patient_appointments(s) /\ audit' = Asked(s, "PATIENT")

NextList ==
    \/ ListBookAppointment
    \/ ListAcceptAppointment
    \/ ListRejectAppointment
    \/ ListCompleteAppointment
    \/ PatientAppointments

SpecList == Init /\ [][NextList]_vars

(***************************************************************************)
(* SpecStats: patients book for today and tomorrow with the doctors, a     *)
(* doctor decides, and every caller opens the dashboard.                   *)
(***************************************************************************)
StatsBookAppointment ==
    /\ Healthy
    /\ CanInsert("appointments", MaxAppointments)
    /\ CanInsert("notifications", ListMaxNotifications)
    /\ \E s \in {SessionOf(u) : u \in Patients}, d \in Doctors, date \in ListDateFields :
           book_appointment(s, FormInt(d.id), date, Some("10:00"), NULL)
    /\ audit' = NULL

Dashboard ==
    /\ Healthy
    /\ \E s \in Sessions : dashboard(s) /\ audit' = Asked(s, "DOCTOR")

NextStats ==
    \/ StatsBookAppointment
    \/ ListAcceptAppointment
    \/ ListRejectAppointment
    \/ ListCompleteAppointment
    \/ Dashboard

SpecStats == Init /\ [][NextStats]_vars

(***************************************************************************)
(* SpecRoster: patients, one of them signing up while the storage may      *)
(* fail, book for today and tomorrow with the doctors, and a doctor        *)
(* accepts, completes and opens the list of patients.                      *)
(***************************************************************************)
RosterMaxUsers == 5

RosterSignup ==
    /\ fault' \in {0, 2}
    /\ UNCHANGED <<requests, opened>>
    /\ CanInsert("users", RosterMaxUsers)
    /\ signup(PatientForm(<<"a">>, <<>>))
    /\ audit' = NULL

DoctorPatients ==
    /\ Healthy
    /\ patients(SessionOf(PickedDoctor))
    /\ audit' = Asked(SessionOf(PickedDoctor), "DOCTOR")

NextRoster ==
    \/ RosterSignup
    \/ StatsBookAppointment
    \/ ListAcceptAppointment
    \/ ListCompleteAppointment
    \/ DoctorPatients

SpecRoster == Init /\ [][NextRoster]_vars

(***************************************************************************)
(* The appointment lifecycle (Spec).                                       *)
(***************************************************************************)
AuditedAppointments == {e \in audit : e.table = "appointments"}

\* C1: an appointment whose status is REJECTED or COMPLETED has the same
\* status in every later state in which the row still exists; it can only
\* keep that status or be deleted.
C1_TerminalStatusIsKept ==
    [][\A a \in appointments : a.status \in {"REJECTED", "COMPLETED"} =>
          \A b \in appointments' : b.id = a.id => b.status = a.status]_vars

Edges ==
    {<<"PENDING", "CONFIRMED">>, <<"PENDING", "REJECTED">>, <<"CONFIRMED", "COMPLETED">>}

\* C2: every change of an appointment's status is PENDING to CONFIRMED,
\* PENDING to REJECTED or CONFIRMED to COMPLETED, so that accept, reject and
\* complete leave the status of an appointment in any other status unchanged.
C2_OnlyThreeEdges ==
    [][\A a \in appointments, b \in appointments' :
          (a.id = b.id /\ a.status # b.status) =>
              /\ <<a.status, b.status>> \in Edges
              /\ response'.message = "Appointment confirmed successfully!"
                     => <<a.status, b.status>> = <<"PENDING", "CONFIRMED">>
              /\ response'.message = "Appointment rejected."
                     => <<a.status, b.status>> = <<"PENDING", "REJECTED">>
              /\ response'.message = "Appointment marked as completed!"
                     => <<a.status, b.status>> = <<"CONFIRMED", "COMPLETED">>]_vars

\* C3: a booking that succeeds adds exactly one appointment row, PENDING, for
\* the caller and the doctor_id it was given, and exactly one notification:
\* APPOINTMENT_REQUESTED, to user doctor_id, with link /doctor/appointments
\* and the new row's id.
C3_BookingAddsOneRowOneNotification ==
    [][response'.message = "Appointment booked successfully!" =>
          \A s \in Sessions, d \in DoctorIdFields, date \in DateFields,
             time \in TimeFields, symptoms \in SymptomFields :
              book_appointment(s, d, date, time, symptoms) =>
                  \E a \in appointments', n \in notifications' :
                      /\ a.id \notin Ids(appointments)
                      /\ appointments' = appointments \cup {a}
                      /\ a.status = "PENDING"
                      /\ a.patient_id = Val(s.user_id)
                      /\ a.doctor_id = Val(d.int)
                      /\ n.id \notin Ids(notifications)
                      /\ notifications' = notifications \cup {n}
                      /\ n.type = "APPOINTMENT_REQUESTED"
                      /\ n.user_id = Val(d.int)
                      /\ n.link = Some("/doctor/appointments")
                      /\ n.appointment_id = Some(a.id)]_vars

C3_Witness ==
    /\ response.message = "Appointment booked successfully!"
    /\ \E a \in appointments, n \in notifications :
           /\ a.id = seq["appointments"] /\ a.status = "PENDING"
           /\ n.id = seq["notifications"] /\ n.type = "APPOINTMENT_REQUESTED"
           /\ n.user_id = a.doctor_id /\ n.appointment_id = Some(a.id)

\* What a request ends with once the body of the decision handlers ran.
AcceptAnswers ==
    {Flash("success", "Appointment confirmed successfully!"),
     Flash("danger", "Error confirming appointment")}

RejectAnswers ==
    {Flash("info", "Appointment rejected."),
     Flash("danger", "Error rejecting appointment")}

\* The step turned row `before` into status and added exactly one notification
\* of the type, to the row's patient, for the row, with the link.
Decided(before, status, type, link) ==
    /\ before \in appointments
    /\ appointments' = (appointments \ {before}) \cup {[before EXCEPT !.status = status]}
    /\ \E n \in notifications' :
           /\ n.id \notin Ids(notifications)
           /\ notifications' = notifications \cup {n}
           /\ n.type = type
           /\ n.user_id = before.patient_id
           /\ n.link = link
           /\ n.appointment_id = Some(before.id)

\* C4: accept_appointment on an existing PENDING appointment sets it to
\* CONFIRMED and adds exactly one notification: APPOINTMENT_ACCEPTED, to the
\* appointment's patient, with the non-null link /patient/appointments and
\* the appointment's id.
C4_AcceptConfirmsAndNotifies ==
    [][response' \in AcceptAnswers =>
          \A e \in AuditedAppointments' : e.before.status = "PENDING" =>
              /\ Decided(e.before, "CONFIRMED", "APPOINTMENT_ACCEPTED",
                         Some("/patient/appointments"))
              /\ \A n \in notifications' \ notifications : n.link # NULL]_vars

C4_Witness ==
    /\ response = Flash("success", "Appointment confirmed successfully!")
    /\ \E e \in AuditedAppointments, a \in appointments, n \in notifications :
           /\ e.before.status = "PENDING"
           /\ a.id = e.before.id /\ a.status = "CONFIRMED"
           /\ n.id = seq["notifications"] /\ n.type = "APPOINTMENT_ACCEPTED"
           /\ n.user_id = a.patient_id /\ n.appointment_id = Some(a.id)

\* C5: reject_appointment on an existing PENDING appointment sets it to
\* REJECTED and adds exactly one notification: APPOINTMENT_REJECTED, to the
\* appointment's patient, with a null link.
C5_RejectRejectsAndNotifies ==
    [][response' \in RejectAnswers =>
          \A e \in AuditedAppointments' : e.before.status = "PENDING" =>
              Decided(e.before, "REJECTED", "APPOINTMENT_REJECTED", NULL)]_vars

C5_Witness ==
    /\ response = Flash("info", "Appointment rejected.")
    /\ \E e \in AuditedAppointments, a \in appointments, n \in notifications :
           /\ e.before.status = "PENDING"
           /\ a.id = e.before.id /\ a.status = "REJECTED"
           /\ n.id = seq["notifications"] /\ n.type = "APPOINTMENT_REJECTED"
           /\ n.user_id = a.patient_id /\ n.link = NULL

\* C6: the status of an appointment is changed only by the appointment's own
\* doctor: after a request of any other caller the row the request named has
\* the status it had before.
C6_OnlyOwnDoctorChangesStatus ==
    \A e \in AuditedAppointments, a \in appointments :
        (a.id = e.before.id /\ a.status # e.before.status) => e.by = a.doctor_id

\* C8: cancelling an existing appointment, in whatever status, removes its
\* row and nothing else from appointments; the id is never given out again
\* and no row records the cancellation.
C8_CancelRemovesTheRow ==
    [][response'.message \in
           {"Appointment cancelled successfully.", "Error cancelling appointment"} =>
          /\ \A e \in AuditedAppointments' :
                 /\ e.before \in appointments
                 /\ appointments' = appointments \ {e.before}
                 /\ e.before.id <= seq'["appointments"]
          /\ audit' = NULL => appointments' = appointments
          /\ seq' = seq]_vars

C8_Witness ==
    /\ response.message = "Appointment cancelled successfully."
    /\ \E e \in AuditedAppointments :
           /\ e.before.status = "COMPLETED"
           /\ e.before.id \notin Ids(appointments)
           /\ appointments # {}

\* C23: complete_appointment and cancel_appointment_route create no
\* notification: no notification row is there after either that was not there
\* before, and no notification id is given out.
C23_CompleteAndCancelNotifyNobody ==
    [][response'.message \in
           {"Appointment marked as completed!", "Error completing appointment",
            "Appointment cancelled successfully.", "Error cancelling appointment"} =>
          /\ notifications' \subseteq notifications
          /\ seq'["notifications"] = seq["notifications"]]_vars

\* a doctor completed a CONFIRMED appointment of a patient who has been
\* notified of its acceptance
C23_Witness ==
    /\ response.message = "Appointment marked as completed!"
    /\ \E e \in AuditedAppointments :
           /\ e.before.status = "CONFIRMED"
           /\ \E a \in appointments : a.id = e.before.id /\ a.status = "COMPLETED"
           /\ \E n \in notifications :
                  n.appointment_id = Some(e.before.id) /\ n.type = "APPOINTMENT_ACCEPTED"

\* C24: accept_appointment and reject_appointment for an appointment id that
\* does not exist end in the error flash, change no appointment and create no
\* notification.
C24_DecidingNoAppointmentIsAnError ==
    [][(/\ response'.message \in
              {"Appointment confirmed successfully!", "Error confirming appointment",
               "Appointment rejected.", "Error rejecting appointment"}
        /\ audit' = NULL) =>
          /\ response'.category = "danger"
          /\ appointments' = appointments
          /\ notifications' = notifications
          /\ seq' = seq]_vars

\* a doctor accepted an appointment that does not exist while a PENDING one does
C24_Witness ==
    /\ response = Flash("danger", "Error confirming appointment")
    /\ audit = NULL
    /\ \E a \in appointments : a.status = "PENDING"

(***************************************************************************)
(* Who deletes (SpecOwner).                                                *)
(***************************************************************************)
\* C7: an appointment row is deleted only by a request of the patient who
\* owns it, and an upload row only by a request of the upload's patient; the
\* row a request of any other patient names is still in place after it.
C7_OnlyTheOwnerDeletes ==
    \A e \in audit :
        /\ (e.table = "appointments" /\ e.before.id \notin Ids(appointments))
               => e.by = e.before.patient_id
        /\ (e.table = "uploads" /\ e.before.id \notin Ids(uploads))
               => e.by = e.before.patient_id

AuditedExtractions == {e \in audit : e.table = "extraction"}

\* the text holds one JSON value, code fences and blanks aside
IsJson(text) ==
    SelectSeq(text, LAMBDA c : c \notin {Fence, FenceJson, " "}) \in {<<"{}">>, <<"[]">>}

\* C22: when the extraction service raises or answers text that is not valid
\* JSON, extract_prescription_from_image returns (None, an error text), and
\* upload_prescription_api answers a failure and writes no upload row; an
\* upload row is written only when the extraction returned parsed data.
C22_NoUploadWithoutParsedData ==
    [][\A e \in AuditedExtractions' :
          LET extracted == extract_prescription_from_image(e.service) IN
          /\ (e.service.raises \/ ~IsJson(e.service.text)) =>
                 /\ extracted.data = NULL
                 /\ extracted.explanation \in
                        {"Error parsing AI response", "Error processing prescription"}
                 /\ response'.category \in {"json 400", "json 500"}
                 /\ uploads' = uploads /\ seq' = seq
          /\ uploads' # uploads =>
                 /\ ~e.service.raises /\ IsJson(e.service.text)
                 /\ extracted.data # NULL
                 /\ response' = Flash("json", "Prescription uploaded successfully")
                 /\ \A u \in uploads' \ uploads :
                        u.extracted_data = extracted.data /\ u.patient_id = e.by]_vars

\* a patient uploaded a file and the service answered text that is no JSON
C22_Witness ==
    /\ response = Flash("json 500", "Error parsing AI response")
    /\ \E e \in AuditedExtractions :
           /\ e.file = Some("rx.jpg")
           /\ ~e.service.raises /\ e.service.text = <<"x">>
    /\ uploads = {}

(***************************************************************************)
(* Prescriptions (SpecRx).                                                 *)
(***************************************************************************)
\* C9 as claimed: a prescription row, once created, is in the table with
\* every field as it was, appointment_id included, after every step.
C9_PrescriptionRowsNeverChange ==
    [][\A p \in prescriptions : p \in prescriptions']_vars

\* C9 as amended: a prescription row is never deleted and its doctor_id,
\* patient_id, diagnosis, medicines and notes never change; its appointment_id
\* changes only to null, in the step that deletes the appointment it names.
C9_PrescriptionsKeptButForAppointmentId ==
    [][\A p \in prescriptions :
          \E q \in prescriptions' :
              /\ q.id = p.id
              /\ \A r \in prescriptions' : r.id = p.id => r = q
              /\ [q EXCEPT !.appointment_id = p.appointment_id] = p
              /\ q.appointment_id # p.appointment_id =>
                     /\ q.appointment_id = NULL
                     /\ Val(p.appointment_id) \in Ids(appointments) \ Ids(appointments')]_vars

C9_Witness ==
    /\ response.message = "Appointment cancelled successfully."
    /\ \E p \in prescriptions :
           /\ p.appointment_id = NULL
           /\ p.diagnosis = <<"a">>
           /\ p.doctor_id \in Ids(Doctors)

AuditedPosts == {e \in audit : e.table = "prescriptions"}

EmptyJsonList == <<"[", "]">>

\* The step added exactly one prescription row, with an empty medicine list.
AddsOneRowWithoutMedicines ==
    \E r \in prescriptions' :
        /\ r.id \notin Ids(prescriptions)
        /\ prescriptions' = prescriptions \cup {r}
        /\ r.medicines_json = EmptyJsonList

\* C10 as claimed: a POST to write_prescription with a non-blank diagnosis
\* and no valid medicine entry adds one prescription row with an empty
\* medicine list; with a blank diagnosis it adds no prescription and no
\* notification.
C10_EmptyMedicinesAcceptedBlankDiagnosisRefused ==
    [][\A e \in AuditedPosts' :
          IF e.diagnosis_blank
          THEN prescriptions' = prescriptions /\ notifications' = notifications
          ELSE e.valid_entries = 0 => AddsOneRowWithoutMedicines]_vars

\* C10 as amended: the same, for a patient_id and an appointment_id that
\* resolve.
C10_EmptyMedicinesAcceptedWhenIdsResolve ==
    [][\A e \in AuditedPosts' :
          IF e.diagnosis_blank
          THEN prescriptions' = prescriptions /\ notifications' = notifications
          ELSE (e.valid_entries = 0 /\ e.resolves) => AddsOneRowWithoutMedicines]_vars

C10_Witness ==
    /\ response.message = "Prescription created successfully"
    /\ \E e \in AuditedPosts, r \in prescriptions :
           /\ ~e.diagnosis_blank /\ e.entries > 0 /\ e.valid_entries = 0
           /\ r.id = seq["prescriptions"]
           /\ r.medicines_json = EmptyJsonList

\* C11: a POST to write_prescription that answers success added exactly one
\* prescription row and exactly one notification: PRESCRIPTION_WRITTEN, to the
\* row's patient_id, with link /patient/prescriptions and prescription_id the
\* new row's id.
C11_PrescriptionWrittenIsNotified ==
    [][response'.message = "Prescription created successfully" =>
          \E r \in prescriptions', n \in notifications' :
              /\ r.id \notin Ids(prescriptions)
              /\ prescriptions' = prescriptions \cup {r}
              /\ n.id \notin Ids(notifications)
              /\ notifications' = notifications \cup {n}
              /\ n.type = "PRESCRIPTION_WRITTEN"
              /\ n.user_id = r.patient_id
              /\ n.link = Some("/patient/prescriptions")
              /\ n.prescription_id = Some(r.id)]_vars

C11_Witness ==
    /\ response.message = "Prescription created successfully"
    /\ \E r \in prescriptions, n \in notifications :
           /\ r.id = seq["prescriptions"]
           /\ n.id = seq["notifications"]
           /\ n.type = "PRESCRIPTION_WRITTEN"
           /\ n.user_id = r.patient_id
           /\ n.prescription_id = Some(r.id)

\* C12: in every state each prescription row has a doctor_id that is the id
\* of a user with role DOCTOR and a patient_id that is the id of a user with
\* role PATIENT.
C12_PrescriptionByDoctorForPatient ==
    \A p \in prescriptions :
        /\ \E u \in users : u.id = p.doctor_id /\ u.role = "DOCTOR"
        /\ \E u \in users : u.id = p.patient_id /\ u.role = "PATIENT"

(***************************************************************************)
(* Notifications (SpecNotif, SpecSweep).                                   *)
(***************************************************************************)
AuditedViews == {e \in audit : e.table = "notifications"}

Fetched == response.category = "json" /\ response.message = "notifications"

Counted == response.category = "json" /\ response.message = "count"

\* C13: opening the panel (mark_notifications_as_read, then
\* delete_read_notifications) removes every notification the caller had; a
\* later fetch of that user returns only notifications created after the
\* panel was opened, and a later count counts only those: the unread ones
\* among them.
C13_PanelPurgesAndLaterFetchesAreNew ==
    [][\A e \in AuditedViews' :
          /\ response' = Json("success", TRUE) =>
                 \A b \in e.before : b.id \notin Ids(notifications')
          /\ Fetched' =>
                 \A o \in opened' : o.user_id = e.by =>
                     \A r \in response'.body : r.user_id = e.by /\ r.id > o.upto
          /\ Counted' =>
                 \A o \in opened' : o.user_id = e.by =>
                     response'.body =
                         Cardinality({n \in notifications' :
                                         /\ n.user_id = e.by
                                         /\ n.is_read = 0
                                         /\ n.id > o.upto})]_vars

C13_Witness ==
    /\ Fetched
    /\ \E e \in AuditedViews, o \in opened, r \in response.body :
           /\ o.user_id = e.by
           /\ o.upto >= 1
           /\ o.upto \notin Ids(notifications)
           /\ r.id > o.upto

Age(n) == now - n.created_at

\* C14: a fetch of user u deletes exactly u's read notifications older than
\* 7 days, so no unread one of any age; the sweep at process start deletes
\* exactly the notifications older than 30 days, read or unread.  (The clock
\* stands still while a request is served.)
C14_SweepsDeleteByAge ==
    [][\A e \in AuditedViews' :
          /\ (Fetched' /\ now' = now) =>
                 \A n \in notifications :
                     n \notin notifications' <=>
                         (n.user_id = e.by /\ n.is_read = 1 /\ Age(n) > ReadRetentionDays)
          /\ (e.by = 0 /\ fault' = 0 /\ now' = now) =>
                 \A n \in notifications :
                     n \notin notifications' <=> Age(n) > RetentionDays]_vars

C14_Witness ==
    /\ Fetched
    /\ \E e \in AuditedViews :
           /\ \E b \in e.before :
                  b.is_read = 1 /\ Age(b) > ReadRetentionDays /\ b.id \notin Ids(notifications)
           /\ \E n \in notifications :
                  n.user_id = e.by /\ n.is_read = 0 /\ Age(n) > ReadRetentionDays

(***************************************************************************)
(* The pages (SpecList, SpecStats).                                        *)
(***************************************************************************)
AuditedPages == {e \in audit : e.table = "appointments" /\ DOMAIN e = {"table", "by"}}

\* C15: the appointment listing of patient p shows exactly the appointments
\* with patient_id = p whose status is not REJECTED.
C15_ListingIsAllButRejected ==
    response.message = "patient_appointments.html" =>
        \A e \in AuditedPages :
            {apt.appointment : apt \in response.body} =
                {a \in appointments : a.patient_id = e.by /\ a.status # "REJECTED"}

\* C16: the dashboard of doctor d shows the number of d's PENDING
\* appointments, the number of d's CONFIRMED or COMPLETED appointments dated
\* today, and the number of distinct patients of d's CONFIRMED or COMPLETED
\* appointments; no appointment of another doctor and no REJECTED one counts.
C16_DoctorStats ==
    response.message = "doctor_dashboard.html" =>
        \A e \in AuditedPages :
            LET mine == {a \in appointments : a.doctor_id = e.by}
                seen == {a \in mine : a.status = "CONFIRMED" \/ a.status = "COMPLETED"}
            IN  /\ response.body.pending_appointments =
                       Cardinality({a \in mine : a.status = "PENDING"})
                /\ response.body.today_appointments =
                       Cardinality({a \in seen : a.date = today})
                /\ response.body.total_patients =
                       Cardinality({u \in users : \E a \in seen : a.patient_id = u.id})

C16_Witness ==
    /\ response.message = "doctor_dashboard.html"
    /\ response.body.total_patients = 1
    /\ response.body.today_appointments = 1
    /\ \E e \in AuditedPages :
           /\ \E a, b \in appointments :
                  /\ a.id # b.id /\ a.doctor_id = e.by /\ b.doctor_id = e.by
                  /\ a.patient_id = b.patient_id
                  /\ a.status = "CONFIRMED" /\ b.status = "COMPLETED"
                  /\ a.date # b.date

(***************************************************************************)
(* The doctor's patients (SpecRoster).                                     *)
(***************************************************************************)
\* the appointments of patient p with doctor d, in one of the statuses
Visits(p, d, statuses) ==
    {a \in appointments : a.patient_id = p /\ a.doctor_id = d /\ a.status \in statuses}

Latest(visits, date) ==
    (\E a \in visits : a.date = date) /\ \A a \in visits : a.date <= date

\* the list has one entry per patient of the set, latest visit first
ListsEach(rows, ids) ==
    /\ {rows[i].id : i \in DOMAIN rows} = ids
    /\ Len(rows) = Cardinality(ids)
    /\ \A i \in DOMAIN rows, j \in DOMAIN rows :
           i < j => rows[i].last_visit >= rows[j].last_visit

\* C25 (as stated): get_doctor_patients(d) lists each patient with an
\* appointment with d that is CONFIRMED or COMPLETED, and nobody else, latest
\* visit first; an entry carries the number of all the patient's appointments
\* with d, the number of the COMPLETED ones, and the latest date of them all.
C25_RosterCountsEveryAppointment ==
    [][\A e \in AuditedPages' :
          response'.message = "doctor_patients.html" =>
              /\ ListsEach(response'.body,
                     {u.id : u \in {u \in users :
                         Visits(u.id, e.by, {"CONFIRMED", "COMPLETED"}) # {}}})
              /\ \A i \in DOMAIN response'.body :
                     LET row == response'.body[i] IN
                     /\ row.total_appointments =
                            Cardinality(Visits(row.id, e.by, Statuses))
                     /\ row.completed_appointments =
                            Cardinality(Visits(row.id, e.by, {"COMPLETED"}))
                     /\ Latest(Visits(row.id, e.by, Statuses), row.last_visit)]_vars

\* C25 (amended): get_doctor_patients(d) lists each patient who has a
\* patient_details row and an appointment with d that is CONFIRMED or
\* COMPLETED, and nobody else, latest visit first; an entry carries the number
\* of the patient's CONFIRMED and COMPLETED appointments with d, the number of
\* the COMPLETED ones, and the latest date among the CONFIRMED and COMPLETED.
C25_RosterCountsConfirmedAndCompleted ==
    [][\A e \in AuditedPages' :
          response'.message = "doctor_patients.html" =>
              /\ ListsEach(response'.body,
                     {u.id : u \in {u \in users :
                         /\ \E p \in patient_details : p.user_id = u.id
                         /\ Visits(u.id, e.by, {"CONFIRMED", "COMPLETED"}) # {}}})
              /\ \A i \in DOMAIN response'.body :
                     LET row == response'.body[i] IN
                     /\ row.total_appointments =
                            Cardinality(Visits(row.id, e.by, {"CONFIRMED", "COMPLETED"}))
                     /\ row.completed_appointments =
                            Cardinality(Visits(row.id, e.by, {"COMPLETED"}))
                     /\ Latest(Visits(row.id, e.by, {"CONFIRMED", "COMPLETED"}),
                               row.last_visit)]_vars

\* the doctor's list holds two patients, the one seen later first, one of them
\* with a completed appointment
C25_Witness ==
    /\ response.message = "doctor_patients.html"
    /\ Len(response.body) = 2
    /\ response.body[1].last_visit > response.body[2].last_visit
    /\ \E i \in 1 .. 2 : response.body[i].completed_appointments = 1

(***************************************************************************)
(* Accounts (SpecSignup).                                                  *)
(***************************************************************************)
DoctorCreated == "Doctor account created successfully! Please login."

\* the signup request the step answered, if it was one for a doctor
DoctorSignups ==
    {e \in audit' : e.table = "doctor_details" /\ response'.message = DoctorCreated}

\* what the step's profile edit was done by
Editors == UNION {e.by : e \in {e \in audit' : e.table = "profile"}}

\* the number a text of digits denotes, surrounding blanks aside
Denotes(text, n) ==
    LET digits == SelectSeq(text, LAMBDA c : c # " ")
    IN  /\ digits # <<>>
        /\ \A i \in 1 .. Len(digits) : digits[i] \in DOMAIN DigitValue
        /\ n = digits_value(digits)

\* the details rows no edit_profile of their user touches stay as they are
DoctorDetailsKept ==
    \A d \in doctor_details : d.user_id \in Editors \/ d \in doctor_details'

\* C17 (as stated): after a successful doctor_signup with specialization s,
\* qualification q, experience_years e and consultation_fee f,
\* get_doctor_details of the new user returns exactly s, q, e and f, and keeps
\* returning them until an edit_profile of that user.
C17_RoundTripAsSupplied ==
    [][/\ \A e \in DoctorSignups :
             \E row \in get_doctor_details(users', doctor_details', e.user_id) :
                 /\ row.specialization = e.form.specialization
                 /\ row.qualification = Some(e.form.qualification)
                 /\ Denotes(e.form.experience_years, row.experience_years)
                 /\ row.consultation_fee # NULL
                 /\ Denotes(e.form.consultation_fee, Val(row.consultation_fee))
       /\ DoctorDetailsKept]_vars

\* C17 (amended): after a successful doctor_signup, get_doctor_details of the
\* new user returns one row: specialization and qualification are the texts
\* sent with the surrounding whitespace stripped, experience_years is the
\* number sent, or 0 when none was sent, and consultation_fee is the number
\* sent, 0 when none was sent, and null when "nan" was sent; the row stays so
\* in every step that is not an edit_profile of that user.
C17_RoundTripNormalised ==
    [][/\ \A e \in DoctorSignups :
             /\ Cardinality(get_doctor_details(users', doctor_details', e.user_id)) = 1
             /\ \A row \in get_doctor_details(users', doctor_details', e.user_id) :
                 /\ row.user.id = e.user_id /\ row.user.role = "DOCTOR"
                 /\ row.specialization = strip(e.form.specialization)
                 /\ row.qualification = Some(strip(e.form.qualification))
                 /\ IF NonBlank(e.form.experience_years)
                    THEN Denotes(e.form.experience_years, row.experience_years)
                    ELSE row.experience_years = 0
                 /\ IF ~NonBlank(e.form.consultation_fee)
                    THEN row.consultation_fee = Some(0)
                    ELSE IF row.consultation_fee = NULL
                    THEN lower(strip(e.form.consultation_fee)) = <<"n", "a", "n">>
                    ELSE Denotes(e.form.consultation_fee, Val(row.consultation_fee))
       /\ DoctorDetailsKept]_vars

\* a doctor signed up with blanks around the texts and a number with a leading
\* zero, another with no numbers at all, and one of them edited the profile
C17_Witness ==
    /\ \E d \in doctor_details :
           /\ d.user_id > MaxId(RegisteredUsers)
           /\ d.specialization = <<"s">> /\ d.qualification = Some(<<"q">>)
           /\ d.experience_years = 5 /\ d.consultation_fee = Some(5)
    /\ \E d \in doctor_details :
           /\ d.user_id > MaxId(RegisteredUsers)
           /\ d.specialization = <<"t">> /\ d.experience_years = 7

\* C19: between operations, signups that failed part-way included, a user has
\* a doctor_details row if and only if the role is DOCTOR and a
\* patient_details row if and only if the role is PATIENT, and at most one
\* such row.
C19_DetailsIffRole ==
    \A u \in users :
        /\ (u.role = "DOCTOR") <=> (\E d \in doctor_details : d.user_id = u.id)
        /\ (u.role = "PATIENT") <=> (\E d \in patient_details : d.user_id = u.id)
        /\ Cardinality({d \in doctor_details : d.user_id = u.id}) <= 1
        /\ Cardinality({d \in patient_details : d.user_id = u.id}) <= 1

(***************************************************************************)
(* Storage failures (SpecFault).                                           *)
(***************************************************************************)
\* C18: when a storage write fails inside an operation made of several
\* statements, every statement of the operation is rolled back: the store is
\* left exactly as it was before the operation started.
C18_FailedOperationLeavesStore ==
    [][fault' # 0 => store' = store]_vars

(***************************************************************************)
(* Concurrent signups (SpecRace).                                          *)
(***************************************************************************)
EmailsUnique == \A u \in users : \A v \in users : u.email = v.email => u.id = v.id

RoleAndEmailKept ==
    \A u \in users : \E v \in users' : v.id = u.id /\ v.role = u.role /\ v.email = u.email

\* C20: no two user rows ever share an email, however the statements of
\* concurrent signup and doctor_signup requests with the same email
\* interleave (at most one of them creates a user), and the role and the
\* email of a user never change once the user is created, edit_profile
\* included.
C20_EmailUniqueRoleKept ==
    []EmailsUnique /\ [][RoleAndEmailKept]_vars

\* two requests with the same email both passed the lookup; one created the
\* user, the insert of the other was refused and its handler answered so
C20_Witness ==
    /\ \E e \in audit :
           /\ e.table = "users" /\ e.taken
           /\ \E u \in users : u.email = e.email /\ u.id > MaxId(RegisteredUsers)
    /\ response = Flash("danger", "Error creating account")

(***************************************************************************)
(* Ids that resolve or not (SpecRefs).                                     *)
(***************************************************************************)
\* the request of the step names an appointment or a patient that is not there
Unresolved(e) ==
    \/ e.op \in {"complete_appointment", "cancel_appointment_route"}
           /\ e.id \notin Ids(appointments)
    \/ e.op = "write_prescription" /\ e.id \notin Ids(users)

\* C21: complete_appointment and cancel_appointment_route on an appointment
\* id that does not exist, and write_prescription (POST) for a patient id
\* that does not exist, each answer an error flash (never success, and never
\* an unhandled exception) and write nothing.
C21_UnresolvedIdIsAnError ==
    [][\A e \in audit' :
           Unresolved(e) =>
               /\ response'.category \in {"danger", "error"}
               /\ store' = store]_vars

(***************************************************************************)
(* Concurrent decisions (SpecDecide).                                      *)
(***************************************************************************)
\* the statement of a decision the step ran
Steps(pc) == {e.request : e \in {e \in audit' : e.step = pc}}

\* C26: accept and reject of one PENDING appointment are not guarded against
\* each other.  However the statements of the two requests interleave, each
\* status write succeeds whatever the status is by then, so the status is
\* the one written last, and each request that found the appointment notifies
\* the patient: of the acceptance and of the rejection.
C26_BothDecisionsGoThrough ==
    [][/\ \A r \in Steps("update") :
              /\ \A a \in appointments : a.id = r.appointment_id =>
                     [a EXCEPT !.status = r.status] \in appointments'
              /\ \A b \in appointments' : b.id = r.appointment_id => b.status = r.status
              /\ Ids(appointments') = Ids(appointments)
       /\ \A r \in Steps("notify") :
              r.found # {} =>
                  /\ response' = r.done
                  /\ \E n \in notifications' \ notifications :
                         /\ notifications' = notifications \cup {n}
                         /\ n.type = r.type
                         /\ n.appointment_id = Some(r.appointment_id)
                         /\ \A a \in r.found : n.user_id = a.patient_id]_vars

\* both requests found the appointment PENDING; the rejection wrote last and
\* notified first, so the appointment is REJECTED and the patient's newest
\* notification says it was accepted
C26_Witness ==
    /\ requests = {}
    /\ \E a \in appointments :
           /\ a.status = "REJECTED"
           /\ \E n \in notifications, m \in notifications :
                  /\ n.appointment_id = Some(a.id) /\ m.appointment_id = Some(a.id)
                  /\ n.user_id = a.patient_id /\ m.user_id = a.patient_id
                  /\ n.type = "APPOINTMENT_REJECTED" /\ m.type = "APPOINTMENT_ACCEPTED"
                  /\ n.id < m.id
    /\ \E e \in audit : e.step = "notify" /\ e.request.found # {}
                            /\ \A a \in e.request.found : a.status = "PENDING"

\* the appointment id a cancellation of the step named
Cancelled == {e.id : e \in {e \in audit' : e.op = "cancel_appointment_route"}}

\* C27: cancelling appointment a deletes every notification whose
\* appointment_id is a, whoever it is for, and keeps every prescription whose
\* appointment_id is a with appointment_id set to null; the notifications and
\* prescriptions that refer to other appointments, or to none, are unchanged.
C27_CancelCascades ==
    [][\A a \in Cancelled :
          /\ notifications' \subseteq notifications
          /\ \A n \in notifications :
                 IF n.appointment_id = Some(a)
                 THEN n.id \notin Ids(notifications')
                 ELSE n \in notifications'
          /\ Cardinality(prescriptions') = Cardinality(prescriptions)
          /\ \A p \in prescriptions :
                 IF p.appointment_id = Some(a)
                 THEN [p EXCEPT !.appointment_id = NULL] \in prescriptions'
                 ELSE p \in prescriptions']_vars

\* an accepted appointment with a prescription was cancelled: its prescription
\* is kept without it and nothing notifies of it any more, while the other
\* appointment keeps its prescription and the notifications to the doctor
\* and to the patient
C27_Witness ==
    /\ response.message = "Appointment cancelled successfully."
    /\ \E e \in audit :
           /\ e.op = "cancel_appointment_route"
           /\ e.id \in 1 .. seq["appointments"]
           /\ e.id \notin Ids(appointments)
           /\ \A n \in notifications : n.appointment_id # Some(e.id)
    /\ \E p \in prescriptions : p.appointment_id = NULL
    /\ \E b \in appointments :
           /\ \E q \in prescriptions : q.appointment_id = Some(b.id)
           /\ \E n \in notifications :
                  n.appointment_id = Some(b.id) /\ n.user_id = b.doctor_id
           /\ \E n \in notifications :
                  n.appointment_id = Some(b.id) /\ n.user_id = b.patient_id
    /\ \E n \in notifications : n.type = "PRESCRIPTION_WRITTEN"

(***************************************************************************)
(* The notification panel, one statement at a time (SpecPanel).            *)
(***************************************************************************)
\* the mark-read requests whose statement pc the step ran, healthy or not
Purges(pc) == {e.request : e \in {e \in audit' : "step" \in DOMAIN e /\ e.step = pc}}

\* the step is a fetch of the notification list
Fetches == \E e \in audit' : "before" \in DOMAIN e

Idle(ns, rs) == {n \in ns : n.is_read = 1 /\ \A r \in rs : r.user_id # n.user_id}

C29_LaterNotificationKeptUnread ==
    [][fault' = 0 =>
           \A r \in Purges("delete") :
               \A n \in notifications : n.user_id = r.user_id =>
                   IF n.id \in r.marked
                   THEN n.id \notin Ids(notifications')
                   ELSE n \in notifications' /\ n.is_read = 0]_vars

\* C29, amended: rows become read only at the UPDATE of a mark-read request,
\* and the DELETE of a mark-read request deletes exactly the user's rows that
\* are read by then.  So every notification that existed at its UPDATE is
\* deleted, and one created since is kept, unread, unless the UPDATE of
\* another mark-read request of the user has marked it in between: then this
\* purge deletes it.
C29_PurgeDeletesWhatIsReadByThen ==
    [][/\ \A n \in notifications' : n.is_read = 1 =>
              \/ n \in notifications
              \/ /\ fault' = 0
                 /\ [n EXCEPT !.is_read = 0] \in notifications
                 /\ \E r \in Purges("update") : r.user_id = n.user_id /\ n.id \in r.marked
       /\ fault' = 0 =>
              \A r \in Purges("delete") :
                  /\ \A id \in r.marked : id \notin Ids(notifications')
                  /\ \A n \in notifications :
                         IF n.user_id = r.user_id /\ n.is_read = 1
                         THEN n.id \notin Ids(notifications')
                         ELSE n \in notifications']_vars

\* a purge deleted the notification it had marked and kept, unread, the one
\* created between its two statements
C29_Witness ==
    /\ fault = 0
    /\ response = Json("success", TRUE)
    /\ \E e \in audit :
           /\ "step" \in DOMAIN e
           /\ e.step = "delete"
           /\ e.request.marked # {}
           /\ e.request.marked \cap Ids(notifications) = {}
           /\ \E n \in notifications :
                  /\ n.user_id = e.request.user_id
                  /\ n.id \notin e.request.marked
                  /\ n.is_read = 0

(***************************************************************************)
(* Who an appointment joins (SpecList).                                    *)
(***************************************************************************)
RoleOf(user_id) == {u.role : u \in {v \in users : v.id = user_id}}

\* C30: every appointment's patient_id is the id of a PATIENT user and its
\* doctor_id the id of a DOCTOR user, so APPOINTMENT_REQUESTED is addressed
\* to DOCTOR users only and APPOINTMENT_ACCEPTED and APPOINTMENT_REJECTED to
\* PATIENT users only.
C30_AppointmentsJoinPatientAndDoctor ==
    /\ \A a \in appointments :
           /\ RoleOf(a.patient_id) = {"PATIENT"}
           /\ RoleOf(a.doctor_id) = {"DOCTOR"}
    /\ \A n \in notifications :
           /\ n.type = "APPOINTMENT_REQUESTED" => RoleOf(n.user_id) = {"DOCTOR"}
           /\ n.type \in {"APPOINTMENT_ACCEPTED", "APPOINTMENT_REJECTED"} =>
                  RoleOf(n.user_id) = {"PATIENT"}

====
